---- MODULE Spec2Model ----
(***************************************************************************)
(* The tool-call gateway of gate22 (backend/aci/mcp): handle_tools_call,   *)
(* handle_execute_tool, _forward_tool_call, _call_tool and the audit-log   *)
(* write, for the dispatches of one MCP session.                           *)
(*                                                                         *)
(* Python's None is the string "none" in string-valued fields and the      *)
(* record NoValue in record-valued fields.                                 *)
(***************************************************************************)
EXTENDS Integers, Sequences, FiniteSets, TLC

VARIABLES
    mcp_server_configurations,  \* DB table: configuration id -> configuration
    mcp_server_bundle,          \* the session's bundle: its ordered configuration ids
    external_mcp_sessions,      \* mcp_session.external_mcp_sessions: server id -> token
    mcp_tool_call_logs,         \* DB table of audit entries: the number of its rows
    frame,                      \* per request: the locals of the handlers and its history
    dispatched,                 \* number of tools/call requests received so far
    last_forward,               \* history: per server, the last forward that returned
    wrapper,                    \* track_duration: the locals of one call of its wrapper
    tool_call_logs,             \* the audit table as the list queries read it: a set of rows
    walk,                       \* a caller following next_log from page to page
    route_call,                 \* the last request to GET /tool-calls and its response
    cursor_call                 \* the last use of MCPToolCallLogCursor.encode / decode

\* The state of the gateway's dispatch and the state the other parts work on.
gateway_vars == << mcp_server_configurations, mcp_server_bundle, external_mcp_sessions,
                   mcp_tool_call_logs, frame, dispatched, last_forward >>
logs_vars == << tool_call_logs, walk, route_call, cursor_call >>
outside_gateway == << wrapper, logs_vars >>

vars == << gateway_vars, outside_gateway >>

----------------------------------------------------------------------------
(* Bounds of the model *)

\* Concurrent request slots of the session.
NumRequests == 2
\* Requests received over a run.
MaxDispatches == 2
\* Distinct session tokens a target server hands out.
MaxTokens == 2

Procs == 1..NumRequests
Tokens == { "k" \o ToString(i) : i \in 1..MaxTokens }

NoValue == [none |-> TRUE]

----------------------------------------------------------------------------
(* The target servers and the tool table (read-only to the gateway) *)

Servers == {"S1", "S2", "S3"}

\* Mutant of transport_type: every server is dispatched to over streamable
\* HTTP.
transport_type_streamable_http_only(s) == "STREAMABLE_HTTP"

\* mcp_server.transport_type
transport_type(s) == IF s = "S2" THEN "SSE" ELSE "STREAMABLE_HTTP"

\* Rows of the mcp_tools table: caller-facing name, id, owning server and the
\* canonical name kept in tool_metadata.
MCPTools ==
    { [name |-> "S1__T1", id |-> "t1", mcp_server |-> "S1", canonical_tool_name |-> "t1"],
      [name |-> "S1__T2", id |-> "t2", mcp_server |-> "S1", canonical_tool_name |-> "t2"],
      [name |-> "S2__T3", id |-> "t3", mcp_server |-> "S2", canonical_tool_name |-> "t3"],
      [name |-> "S3__T4", id |-> "t4", mcp_server |-> "S3", canonical_tool_name |-> "t4"] }

NoTool == [name |-> "none", id |-> "none", mcp_server |-> "none", canonical_tool_name |-> "none"]

\* crud.mcp_tools.get_mcp_tool_by_name
get_mcp_tool_by_name(tool_name) ==
    IF \E t \in MCPTools : t.name = tool_name
    THEN CHOOSE t \in MCPTools : t.name = tool_name
    ELSE NoTool

ConfigurationIds == {"c0", "c1", "c2", "c3", "c4"}

NoConfiguration == [id |-> "none", mcp_server_id |-> "none",
                    all_tools_enabled |-> FALSE, enabled_tools |-> {}]

\* The contents the configuration table can have: c1 binds S1, c2 binds S2 and
\* c3 binds S3; c0 is an id with no stored row. c4 is a second configuration
\* of S1, with every tool enabled: nothing in the tables keeps a bundle from
\* listing two configurations of one server.
ConfigurationTables ==
    { [c \in ConfigurationIds |->
         CASE c = "c1" -> [id |-> "c1", mcp_server_id |-> "S1",
                           all_tools_enabled |-> a, enabled_tools |-> e]
           [] c = "c2" -> [id |-> "c2", mcp_server_id |-> "S2",
                           all_tools_enabled |-> TRUE, enabled_tools |-> {}]
           [] c = "c3" -> [id |-> "c3", mcp_server_id |-> "S3",
                           all_tools_enabled |-> TRUE, enabled_tools |-> {}]
           [] c = "c4" -> [id |-> "c4", mcp_server_id |-> "S1",
                           all_tools_enabled |-> TRUE, enabled_tools |-> {}]
           [] OTHER    -> NoConfiguration]
      : a \in BOOLEAN, e \in {{}, {"t1"}} }

\* The bundles a session can belong to.
Bundles == { <<"c2">>, <<"c0", "c3", "c1", "c2", "c4">> }

\* crud.mcp_server_configurations.get_mcp_server_configuration_by_id
get_mcp_server_configuration_by_id(id) == mcp_server_configurations[id]

----------------------------------------------------------------------------
(* JSON values of the request and the EXECUTE_TOOL input schema *)

\* A JSON value: its type and its json.dumps text; Absent is a missing key.
JStr(s)  == [t |-> "str", v |-> s]
JInt7    == [t |-> "int", v |-> "7"]
JDict0   == [t |-> "dict", v |-> "{}"]
JDict1   == [t |-> "dict", v |-> "{\"q\": 1}"]
JNull    == [t |-> "null", v |-> "null"]
Absent   == [t |-> "absent", v |-> ""]

\* payload.params.arguments of an EXECUTE_TOOL call: tool_name, tool_arguments
\* and whether any further key is present.
Args(n, a, x) == [tool_name |-> n, tool_arguments |-> a, extra |-> x]

ValidArguments ==
    { Args(JStr(n), JDict0, FALSE) : n \in {"S1__T1", "S2__T3", "S3__T4"} }
      \cup { Args(JStr(n), JDict1, FALSE) : n \in {"S1__T2", "S9__TX"} }

MalformedArguments ==
    { Args(Absent, JDict0, FALSE), Args(JInt7, JDict0, FALSE), Args(JNull, JNull, FALSE),
      Args(JStr("S1__T1"), Absent, FALSE), Args(JStr("S1__T1"), JStr("x"), FALSE),
      Args(JStr("S1__T1"), JDict0, TRUE) }

Arguments == ValidArguments \cup MalformedArguments

NoArguments == Args(Absent, Absent, FALSE)

\* ExecuteToolInputSchema.model_validate: tool_name a string, tool_arguments a
\* dict, both required, no other field (extra="forbid").
ExecuteToolInputSchema_valid(arguments) ==
    /\ arguments.tool_name.t = "str"
    /\ arguments.tool_arguments.t = "dict"
    /\ ~arguments.extra

\* json.dumps of a JSON value: a string is quoted, anything else is its text.
json_dumps(j) == IF j.t = "str" THEN "\"" \o j.v \o "\"" ELSE j.v

----------------------------------------------------------------------------
(* Errors and results *)

\* JSONRPCErrorCode (aci.mcp.routes.jsonrpc)
JSONRPCErrorCode ==
    [ INVALID_REQUEST |-> -32600, INVALID_METHOD_PARAMS |-> -32602,
      INTERNAL_ERROR |-> -32603, UNAUTHORIZED |-> -32001 ]

\* JSONRPCErrorResponse.ErrorData(code, message, data=None)
ErrorData(code, message, data) == [code |-> code, message |-> message, data |-> data]

\* ErrorData.model_dump(exclude_none=True)
ErrorData_model_dump(e) ==
    IF e.data = "none"
    THEN [code |-> e.code, message |-> e.message]
    ELSE [code |-> e.code, message |-> e.message, data |-> e.data]

\* The code of the stale-session signature.
SESSION_TERMINATED_CODE == 32600
SESSION_TERMINATED_MESSAGE == "Session terminated"

\* What a transport operation hands back: a CallToolResult, an McpError
\* (kind "mcperror"), or nothing yet (kind "none").
NoOutcome == [kind |-> "none", code |-> 0, message |-> "", data |-> "none",
              content |-> "none", structuredContent |-> "none"]
McpError(code, message, data) ==
    [NoOutcome EXCEPT !.kind = "mcperror", !.code = code, !.message = message, !.data = data]
CallToolResult(content, structured) ==
    [NoOutcome EXCEPT !.kind = "result", !.content = content, !.structuredContent = structured]

SessionTerminated == McpError(SESSION_TERMINATED_CODE, SESSION_TERMINATED_MESSAGE, "none")

\* The protocol errors a target server answers with: the stale-session
\* signature, an error sharing only its code, and one sharing only its message
\* (and carrying data).
McpErrors ==
    { SessionTerminated,
      McpError(SESSION_TERMINATED_CODE, "Invalid request", "none"),
      McpError(-32603, SESSION_TERMINATED_MESSAGE, "detail") }

CallToolResults == { CallToolResult("Success", "none") }

\* CallToolResult.model_dump(exclude_none=True)
CallToolResult_model_dump(r) ==
    IF r.structuredContent = "none"
    THEN [content |-> r.content]
    ELSE [content |-> r.content, structuredContent |-> r.structuredContent]

\* The test of _call_tool for the stale-session signature.
is_session_terminated(e) ==
    e.code = SESSION_TERMINATED_CODE /\ e.message = SESSION_TERMINATED_MESSAGE

----------------------------------------------------------------------------
(* The locals of one request *)

\* MCPToolCallLogCreate.model_construct(): nothing set yet.
EmptyLog ==
    [ session_id |-> "none", via_execute_tool |-> FALSE,
      mcp_server_name |-> "none", mcp_server_id |-> "none",
      mcp_tool_name |-> "none", mcp_tool_id |-> "none",
      mcp_server_configuration_name |-> "none", mcp_server_configuration_id |-> "none",
      arguments |-> "none", result |-> NoValue, status |-> "unset" ]

NoResponse == [kind |-> "none", body |-> NoValue]
JSONRPCErrorResponse(error) == [kind |-> "error", body |-> error]
JSONRPCSuccessResponse(result) == [kind |-> "success", body |-> result]

\* What last_forward keeps of a forward that returned to handle_execute_tool:
\* whether it was a first call (no token held) that returned a result with no
\* stale-session error, and then its initializes and the token held after it.
NoForward == [seen |-> FALSE, first_call |-> FALSE, n_initialize |-> 0, after |-> "none"]
OtherForward == [NoForward EXCEPT !.seen = TRUE]

IdleFrame ==
    [ pc |-> "idle",
      params_name |-> "none",              \* payload.params.name
      arguments |-> NoArguments,           \* payload.params.arguments
      tool_call_log_data |-> EmptyLog,
      response |-> NoResponse,             \* the envelope handle_execute_tool returns
      exit |-> "none",                     \* the return statement that ended it
      mcp_tool |-> NoTool,
      mcp_server_configuration |-> NoConfiguration,
      looked_up |-> FALSE,                 \* history: the tool lookup was made
      consulted |-> << >>,                 \* history: the configuration ids looked up
      name |-> "none",                     \* _forward_tool_call's name
      tool_arguments |-> Absent,           \* _forward_tool_call's arguments
      sent |-> << >>,                      \* history: what each call_tool carried
      existing_mcp_session_id |-> "none",
      need_initialize |-> FALSE,
      session_id |-> "none",               \* the transport's get_session_id()
      tool_call_result |-> NoOutcome,      \* what _call_tool returned
      raised |-> FALSE,                    \* the forward raised an exception
      exception |-> "none",                \* str(e) of the exception a stage raised
      db_session |-> "active",             \* "inactive": a flush failed, rollback pending
      returned |-> NoResponse,             \* what handle_tools_call returned
      request |-> "pending",               \* how the request ended
      \* history of the dispatch
      opened |-> FALSE,                    \* a transport connection was opened
      n_initialize |-> 0,
      n_call_tool |-> 0,
      first_attempt |-> NoOutcome,         \* outcome of the first call_tool
      last_attempt |-> NoOutcome,          \* outcome of the last call_tool
      last_initialize |-> NoOutcome,       \* outcome of the last initialize
      stale |-> FALSE,                     \* some call_tool failed with the stale signature
      recorded |-> FALSE,                  \* the session's token was written
      before |-> "none",                   \* the token held just before that write
      n_create |-> 0,                      \* calls of crud.mcp_tool_call_logs.create
      log_failure |-> "none",              \* how the audit write failed, if it did
      prev |-> NoForward ]                 \* last_forward of the server when read

\* track_duration's wrapper before a call: nothing read, nothing returned. The
\* instants are microseconds; populated names the fields of the entry that
\* the wrapper has assigned.
IdleWrapper == [pc |-> "idle", started_at |-> 0, result |-> "none", populated |-> {},
                log_started_at |-> 0, log_ended_at |-> 0, log_duration_ms |-> 0,
                now_at_exit |-> 0]

\* The sessions, the audit table and the requests before the first request.
GatewayAtStart ==
    /\ external_mcp_sessions = [s \in Servers |-> "none"]
    /\ mcp_tool_call_logs = 0
    /\ frame = [p \in Procs |-> IdleFrame]
    /\ dispatched = 0
    /\ last_forward = [s \in Servers |-> NoForward]

\* The gateway while no request is made of it: no configuration stored.
GatewayUnused ==
    /\ mcp_server_configurations = [c \in ConfigurationIds |-> NoConfiguration]
    /\ mcp_server_bundle = <<"c2">>
    /\ GatewayAtStart

\* No page walk and no list request in progress.
IdleWalk == [pc |-> "idle"]
IdleRouteCall == [pc |-> "idle"]
IdleCursorCall == [pc |-> "idle"]

\* The list queries before the first request: no row written, nothing asked.
LogsAtStart ==
    /\ tool_call_logs = {}
    /\ walk = IdleWalk
    /\ route_call = IdleRouteCall
    /\ cursor_call = IdleCursorCall

Init ==
    /\ mcp_server_configurations \in ConfigurationTables
    /\ mcp_server_bundle \in Bundles
    /\ GatewayAtStart
    /\ wrapper = IdleWrapper
    /\ LogsAtStart

Quiet == \A q \in Procs : frame[q].pc = "idle"

\* A request is served in the lowest free slot.
Free(p) == frame[p].pc = "idle" /\ \A q \in Procs : q < p => frame[q].pc # "idle"

----------------------------------------------------------------------------
(* handle_tools_call: the match on payload.params.name *)

\* case EXECUTE_TOOL, up to the first statement of handle_execute_tool's body
\* that can fail: the audit entry is constructed and its request fields set.
receive_execute_tool(p, allowed) ==
    /\ Free(p)
    /\ dispatched < MaxDispatches
    /\ \E arguments \in allowed :
         frame' = [frame EXCEPT ![p] =
            [IdleFrame EXCEPT
               !.pc = "validate",
               !.params_name = "EXECUTE_TOOL",
               !.arguments = arguments,
               !.tool_call_log_data =
                   [EmptyLog EXCEPT !.session_id = "session", !.via_execute_tool = TRUE]]]
    /\ dispatched' = dispatched + 1
    /\ UNCHANGED << outside_gateway, mcp_server_configurations, mcp_server_bundle, external_mcp_sessions,
                    mcp_tool_call_logs, last_forward >>

tools_call_execute_tool(p) == receive_execute_tool(p, Arguments)

\* case SEARCH_TOOLS: handle_search_tools answers; no audit entry is written.
tools_call_search_tools(p) ==
    /\ Free(p)
    /\ dispatched < MaxDispatches
    /\ frame' = [frame EXCEPT ![p] =
          [IdleFrame EXCEPT
             !.pc = "returned",
             !.params_name = "SEARCH_TOOLS",
             !.returned = JSONRPCSuccessResponse([content |-> "tools"])]]
    /\ dispatched' = dispatched + 1
    /\ UNCHANGED << outside_gateway, mcp_server_configurations, mcp_server_bundle, external_mcp_sessions,
                    mcp_tool_call_logs, last_forward >>

\* Mutant of tools_call_unknown_tool: an audit entry is written for the
\* unknown name too.
tools_call_unknown_tool_logged(p) ==
    /\ Free(p)
    /\ dispatched < MaxDispatches
    /\ frame' = [frame EXCEPT ![p] =
          [IdleFrame EXCEPT
             !.pc = "returned",
             !.params_name = "OTHER",
             !.returned = JSONRPCErrorResponse(
                 ErrorData(JSONRPCErrorCode.INVALID_METHOD_PARAMS,
                           "Unknown tool: OTHER", "none"))]]
    /\ dispatched' = dispatched + 1
    /\ mcp_tool_call_logs' = mcp_tool_call_logs + 1
    /\ UNCHANGED << outside_gateway, mcp_server_configurations, mcp_server_bundle, external_mcp_sessions,
                    last_forward >>

\* case _: an unknown tool name is answered with INVALID_METHOD_PARAMS.
tools_call_unknown_tool(p) ==
    /\ Free(p)
    /\ dispatched < MaxDispatches
    /\ frame' = [frame EXCEPT ![p] =
          [IdleFrame EXCEPT
             !.pc = "returned",
             !.params_name = "OTHER",
             !.returned = JSONRPCErrorResponse(
                 ErrorData(JSONRPCErrorCode.INVALID_METHOD_PARAMS,
                           "Unknown tool: OTHER", "none"))]]
    /\ dispatched' = dispatched + 1
    /\ UNCHANGED << outside_gateway, mcp_server_configurations, mcp_server_bundle, external_mcp_sessions,
                    mcp_tool_call_logs, last_forward >>

----------------------------------------------------------------------------
(* handle_execute_tool *)

\* Mutant of return_error: the error is dumped without exclude_none.
return_error_keeps_none(f, exit, errorData) ==
    [f EXCEPT
       !.tool_call_log_data.result = errorData,
       !.tool_call_log_data.status = "ERROR",
       !.response = JSONRPCErrorResponse(errorData),
       !.exit = exit,
       !.pc = "log"]

\* An error exit of handle_execute_tool: the error goes into the audit entry
\* and into the error envelope, and the pair is returned.
return_error(f, exit, errorData) ==
    [f EXCEPT
       !.tool_call_log_data.result = ErrorData_model_dump(errorData),
       !.tool_call_log_data.status = "ERROR",
       !.response = JSONRPCErrorResponse(errorData),
       !.exit = exit,
       !.pc = "log"]

\* Mutant of validate_input_frame: the entry is named only when the input is
\* rejected.
validate_input_frame_names_late(f) ==
    IF ExecuteToolInputSchema_valid(f.arguments)
    THEN [f EXCEPT !.pc = "resources"]
    ELSE return_error(f, "InvalidParams",
             ErrorData(JSONRPCErrorCode.INVALID_METHOD_PARAMS, "validation error", "none"))

\* Mutant of validate_input_frame: a tool name that is no string is not
\* recovered for the entry.
validate_input_frame_strings_only(f) ==
    IF ExecuteToolInputSchema_valid(f.arguments)
    THEN [f EXCEPT
            !.tool_call_log_data.mcp_tool_name = f.arguments.tool_name.v,
            !.tool_call_log_data.arguments = json_dumps(f.arguments.tool_arguments),
            !.pc = "resources"]
    ELSE LET tool_name_raw == f.arguments.tool_name
             tool_arguments_raw == f.arguments.tool_arguments
             named == IF tool_name_raw.t # "str" THEN f
                      ELSE [f EXCEPT !.tool_call_log_data.mcp_tool_name = tool_name_raw.v]
             argued == IF tool_arguments_raw.t \in {"absent", "null"} THEN named
                       ELSE [named EXCEPT !.tool_call_log_data.arguments =
                               json_dumps(tool_arguments_raw)]
         IN  return_error(argued, "InvalidParams",
                 ErrorData(JSONRPCErrorCode.INVALID_METHOD_PARAMS, "validation error", "none"))

\* "validate input": model_validate of the arguments; on failure the tool name
\* and arguments are recovered for the entry as far as arguments.get() returns
\* them: a missing key and a null value both give None.
validate_input_frame(f) ==
    IF ExecuteToolInputSchema_valid(f.arguments)
    THEN [f EXCEPT
            !.tool_call_log_data.mcp_tool_name = f.arguments.tool_name.v,
            !.tool_call_log_data.arguments = json_dumps(f.arguments.tool_arguments),
            !.pc = "resources"]
    ELSE LET tool_name_raw == f.arguments.tool_name
             tool_arguments_raw == f.arguments.tool_arguments
             named == IF tool_name_raw.t \in {"absent", "null"} THEN f
                      ELSE [f EXCEPT !.tool_call_log_data.mcp_tool_name =
                              IF tool_name_raw.t = "str" THEN tool_name_raw.v
                              ELSE json_dumps(tool_name_raw)]
             argued == IF tool_arguments_raw.t \in {"absent", "null"} THEN named
                       ELSE [named EXCEPT !.tool_call_log_data.arguments =
                               json_dumps(tool_arguments_raw)]
         IN  return_error(argued, "InvalidParams",
                 ErrorData(JSONRPCErrorCode.INVALID_METHOD_PARAMS, "validation error", "none"))

validate_input(p) ==
    /\ frame[p].pc = "validate"
    /\ frame' = [frame EXCEPT ![p] = validate_input_frame(frame[p])]
    /\ UNCHANGED << outside_gateway, mcp_server_configurations, mcp_server_bundle, external_mcp_sessions,
                    mcp_tool_call_logs, dispatched, last_forward >>

\* Mutant of find_mcp_server_configuration: the last matching configuration
\* of the list is kept (the loop without its break).
RECURSIVE find_mcp_server_configuration_no_break(_, _)
find_mcp_server_configuration_no_break(ids, mcp_server_id) ==
    IF ids = << >> THEN NoConfiguration
    ELSE LET candidate == get_mcp_server_configuration_by_id(Head(ids))
             later == find_mcp_server_configuration_no_break(Tail(ids), mcp_server_id)
         IN  IF later # NoConfiguration THEN later
             ELSE IF candidate # NoConfiguration /\ candidate.mcp_server_id = mcp_server_id
             THEN candidate
             ELSE NoConfiguration

\* The scan of the bundle's configuration ids: the first id, in list order, with
\* a stored configuration whose mcp_server_id is the tool's server; an id with
\* no stored row is skipped.
RECURSIVE find_mcp_server_configuration(_, _)
find_mcp_server_configuration(ids, mcp_server_id) ==
    IF ids = << >> THEN NoConfiguration
    ELSE LET candidate == get_mcp_server_configuration_by_id(Head(ids))
         IN  IF candidate # NoConfiguration /\ candidate.mcp_server_id = mcp_server_id
             THEN candidate
             ELSE find_mcp_server_configuration(Tail(ids), mcp_server_id)

\* The ids the scan looks up: those of the list up to and including the first
\* match, all of them when none matches.
RECURSIVE consulted_ids(_, _)
consulted_ids(ids, mcp_server_id) ==
    IF ids = << >> THEN << >>
    ELSE LET candidate == get_mcp_server_configuration_by_id(Head(ids))
         IN  IF candidate # NoConfiguration /\ candidate.mcp_server_id = mcp_server_id
             THEN << Head(ids) >>
             ELSE << Head(ids) >> \o consulted_ids(Tail(ids), mcp_server_id)

\* Mutant of tool_not_enabled: "or" for "and".
tool_not_enabled_or(mcp_server_configuration, mcp_tool) ==
    \/ ~mcp_server_configuration.all_tools_enabled
    \/ mcp_tool.id \notin mcp_server_configuration.enabled_tools

\* The enablement test of the configuration for the tool.
tool_not_enabled(mcp_server_configuration, mcp_tool) ==
    /\ ~mcp_server_configuration.all_tools_enabled
    /\ mcp_tool.id \notin mcp_server_configuration.enabled_tools

InternalError == ErrorData(JSONRPCErrorCode.INTERNAL_ERROR, "Internal error", "none")

\* Mutant of check_resources_frame: the configuration scan is judged before
\* the tool lookup.
check_resources_frame_scan_first(f0, db_error) ==
    LET f == [f0 EXCEPT !.looked_up = TRUE]
        tool_name == f.arguments.tool_name.v
        mcp_tool == get_mcp_tool_by_name(tool_name)
        found == [f EXCEPT
                    !.mcp_tool = mcp_tool,
                    !.tool_call_log_data.mcp_server_name = mcp_tool.mcp_server,
                    !.tool_call_log_data.mcp_server_id = mcp_tool.mcp_server,
                    !.tool_call_log_data.mcp_tool_id = mcp_tool.id]
        mcp_server_configuration ==
            find_mcp_server_configuration(mcp_server_bundle, mcp_tool.mcp_server)
        scanned == [found EXCEPT
                    !.consulted = consulted_ids(mcp_server_bundle, mcp_tool.mcp_server)]
        configured == [scanned EXCEPT
                    !.mcp_server_configuration = mcp_server_configuration,
                    !.tool_call_log_data.mcp_server_configuration_name =
                        mcp_server_configuration.id,
                    !.tool_call_log_data.mcp_server_configuration_id =
                        mcp_server_configuration.id]
    IN  IF db_error = "tool"
        THEN return_error([f EXCEPT !.exception = db_error], "ResourceException", InternalError)
        ELSE IF db_error = "configuration" /\ mcp_tool # NoTool
        THEN return_error([found EXCEPT !.exception = db_error], "ResourceException",
                          InternalError)
        ELSE IF mcp_server_configuration = NoConfiguration
        THEN return_error(scanned, "ServiceNotConfigured",
                 ErrorData(JSONRPCErrorCode.INVALID_REQUEST,
                           "MCP server not configured, mcp_server_name=" \o mcp_tool.mcp_server,
                           "none"))
        ELSE IF mcp_tool = NoTool
        THEN return_error(f, "ToolNotFound",
                 ErrorData(JSONRPCErrorCode.INVALID_METHOD_PARAMS,
                           "Tool not found, tool_name=" \o tool_name, "none"))
        ELSE IF tool_not_enabled(mcp_server_configuration, mcp_tool)
        THEN return_error(configured, "ToolNotEnabled",
                 ErrorData(JSONRPCErrorCode.UNAUTHORIZED,
                           "MCP tool not enabled in mcp server configuration, mcp_tool_name="
                               \o mcp_tool.name, "none"))
        ELSE [configured EXCEPT !.pc = "auth"]

\* Mutant of check_resources_frame: the configuration fields of the audit
\* entry are set after the enabled-tool check.
check_resources_frame_logs_configuration_late(f0, db_error) ==
    LET f == [f0 EXCEPT !.looked_up = TRUE]
        tool_name == f.arguments.tool_name.v
        mcp_tool == get_mcp_tool_by_name(tool_name)
        found == [f EXCEPT
                    !.mcp_tool = mcp_tool,
                    !.tool_call_log_data.mcp_server_name = mcp_tool.mcp_server,
                    !.tool_call_log_data.mcp_server_id = mcp_tool.mcp_server,
                    !.tool_call_log_data.mcp_tool_id = mcp_tool.id]
        mcp_server_configuration ==
            find_mcp_server_configuration(mcp_server_bundle, mcp_tool.mcp_server)
        scanned == [found EXCEPT
                    !.consulted = consulted_ids(mcp_server_bundle, mcp_tool.mcp_server)]
        matched == [scanned EXCEPT !.mcp_server_configuration = mcp_server_configuration]
        configured == [matched EXCEPT
                    !.tool_call_log_data.mcp_server_configuration_name =
                        mcp_server_configuration.id,
                    !.tool_call_log_data.mcp_server_configuration_id =
                        mcp_server_configuration.id]
    IN  IF db_error = "tool"
        THEN return_error([f EXCEPT !.exception = db_error], "ResourceException", InternalError)
        ELSE IF mcp_tool = NoTool
        THEN return_error(f, "ToolNotFound",
                 ErrorData(JSONRPCErrorCode.INVALID_METHOD_PARAMS,
                           "Tool not found, tool_name=" \o tool_name, "none"))
        ELSE IF db_error = "configuration"
        THEN return_error([found EXCEPT !.exception = db_error], "ResourceException",
                          InternalError)
        ELSE IF mcp_server_configuration = NoConfiguration
        THEN return_error(scanned, "ServiceNotConfigured",
                 ErrorData(JSONRPCErrorCode.INVALID_REQUEST,
                           "MCP server not configured, mcp_server_name=" \o mcp_tool.mcp_server,
                           "none"))
        ELSE IF tool_not_enabled(mcp_server_configuration, mcp_tool)
        THEN return_error(matched, "ToolNotEnabled",
                 ErrorData(JSONRPCErrorCode.UNAUTHORIZED,
                           "MCP tool not enabled in mcp server configuration, mcp_tool_name="
                               \o mcp_tool.name, "none"))
        ELSE [configured EXCEPT !.pc = "auth"]

\* "validate resource existence and access permissions". db_error says where
\* the database raises: "none", in the tool lookup, or in the configuration scan.
check_resources_frame(f0, db_error) ==
    LET f == [f0 EXCEPT !.looked_up = TRUE]
        tool_name == f.arguments.tool_name.v
        mcp_tool == get_mcp_tool_by_name(tool_name)
        found == [f EXCEPT
                    !.mcp_tool = mcp_tool,
                    !.tool_call_log_data.mcp_server_name = mcp_tool.mcp_server,
                    !.tool_call_log_data.mcp_server_id = mcp_tool.mcp_server,
                    !.tool_call_log_data.mcp_tool_id = mcp_tool.id]
        mcp_server_configuration ==
            find_mcp_server_configuration(mcp_server_bundle, mcp_tool.mcp_server)
        scanned == [found EXCEPT
                    !.consulted = consulted_ids(mcp_server_bundle, mcp_tool.mcp_server)]
        configured == [scanned EXCEPT
                    !.mcp_server_configuration = mcp_server_configuration,
                    !.tool_call_log_data.mcp_server_configuration_name =
                        mcp_server_configuration.id,
                    !.tool_call_log_data.mcp_server_configuration_id =
                        mcp_server_configuration.id]
    IN  IF db_error = "tool"
        THEN return_error([f EXCEPT !.exception = db_error], "ResourceException", InternalError)
        ELSE IF mcp_tool = NoTool
        THEN return_error(f, "ToolNotFound",
                 ErrorData(JSONRPCErrorCode.INVALID_METHOD_PARAMS,
                           "Tool not found, tool_name=" \o tool_name, "none"))
        ELSE IF db_error = "configuration"
        THEN return_error([found EXCEPT !.exception = db_error], "ResourceException",
                          InternalError)
        ELSE IF mcp_server_configuration = NoConfiguration
        THEN return_error(scanned, "ServiceNotConfigured",
                 ErrorData(JSONRPCErrorCode.INVALID_REQUEST,
                           "MCP server not configured, mcp_server_name=" \o mcp_tool.mcp_server,
                           "none"))
        ELSE IF tool_not_enabled(mcp_server_configuration, mcp_tool)
        THEN return_error(configured, "ToolNotEnabled",
                 ErrorData(JSONRPCErrorCode.UNAUTHORIZED,
                           "MCP tool not enabled in mcp server configuration, mcp_tool_name="
                               \o mcp_tool.name, "none"))
        ELSE [configured EXCEPT !.pc = "auth"]

check_resources(p) ==
    /\ frame[p].pc = "resources"
    /\ \E db_error \in {"none", "tool", "configuration"} :
         frame' = [frame EXCEPT ![p] = check_resources_frame(frame[p], db_error)]
    /\ UNCHANGED << outside_gateway, mcp_server_configurations, mcp_server_bundle, external_mcp_sessions,
                    mcp_tool_call_logs, dispatched, last_forward >>

\* Mutant of get_auth_frame: the transport is opened before the credentials
\* are resolved.
get_auth_frame_opens_first(f, auth) ==
    IF auth = "granted" THEN [f EXCEPT !.pc = "forward"]
    ELSE [return_error([f EXCEPT !.exception = auth], "CredentialException", InternalError)
            EXCEPT !.opened = TRUE]

\* Mutant of get_auth_frame: the message of the error is str(e).
get_auth_frame_tells_exception(f, auth) ==
    IF auth = "granted" THEN [f EXCEPT !.pc = "forward"]
    ELSE return_error([f EXCEPT !.exception = auth], "CredentialException",
             ErrorData(JSONRPCErrorCode.INTERNAL_ERROR, auth, "none"))

\* What acm.get_auth_config and acm.get_auth_credentials can raise.
CredentialFailures == {"no connected account", "cannot refresh token s3cr3t"}

\* "get auth config and credentials": the credential store answers or raises.
get_auth_frame(f, auth) ==
    IF auth = "granted" THEN [f EXCEPT !.pc = "forward"]
    ELSE return_error([f EXCEPT !.exception = auth], "CredentialException", InternalError)

get_auth(p) ==
    /\ frame[p].pc = "auth"
    /\ \E auth \in {"granted"} \cup CredentialFailures :
         frame' = [frame EXCEPT ![p] = get_auth_frame(frame[p], auth)]
    /\ UNCHANGED << outside_gateway, mcp_server_configurations, mcp_server_bundle, external_mcp_sessions,
                    mcp_tool_call_logs, dispatched, last_forward >>

----------------------------------------------------------------------------
(* _forward_tool_call and _call_tool *)

mcp_server_of(f) == f.mcp_tool.mcp_server

\* Where _call_tool's return leads: the streamable-HTTP branch goes on to read
\* get_session_id(), the SSE branch returns the result at once.
after_call_tool(f) ==
    IF transport_type(mcp_server_of(f)) = "STREAMABLE_HTTP" THEN "record" ELSE "forward_return"

\* The protocol errors an initialize is answered with.
InitializeErrors == { SessionTerminated, McpError(-32603, SESSION_TERMINATED_MESSAGE, "detail") }

\* What initialize and call_tool can do besides answering: raise an exception
\* that is no McpError (in the transport, or out of its task group).
RaiseWith(text) == [NoOutcome EXCEPT !.kind = "raise", !.message = text]
Raise == RaiseWith("connection closed")
Raises == {Raise, RaiseWith("401 Unauthorized for bearer s3cr3t")}
InitializeResult == [NoOutcome EXCEPT !.kind = "initialized"]
InitializeOutcomes == {InitializeResult} \cup Raises \cup InitializeErrors
CallToolOutcomes == CallToolResults \cup McpErrors \cup Raises

\* Mutant of canonical_tool_name: the name the tool was looked up by.
canonical_tool_name_as_looked_up(mcp_tool) == mcp_tool.name

\* MCPToolMetadata.model_validate(mcp_tool.tool_metadata).canonical_tool_name
canonical_tool_name(mcp_tool) == mcp_tool.canonical_tool_name

\* _forward_tool_call is entered with name and arguments, and reads
\* existing_mcp_session_id = mcp_session.external_mcp_sessions.get(str(mcp_server.id))
forward_read_frame(f, sessions, last) ==
    [f EXCEPT
       !.name = canonical_tool_name(f.mcp_tool),
       !.tool_arguments = f.arguments.tool_arguments,
       !.existing_mcp_session_id = sessions[mcp_server_of(f)],
       !.prev = last[mcp_server_of(f)],
       !.pc = "open"]

forward_read(p) ==
    /\ frame[p].pc = "forward"
    /\ frame' = [frame EXCEPT ![p] =
                   forward_read_frame(frame[p], external_mcp_sessions, last_forward)]
    /\ UNCHANGED << outside_gateway, mcp_server_configurations, mcp_server_bundle, external_mcp_sessions,
                    mcp_tool_call_logs, dispatched, last_forward >>

\* Mutant of open_transport_frame: _call_tool is always told to initialize.
open_transport_frame_always_initializes(f, ok) ==
    IF ok
    THEN [f EXCEPT
            !.opened = TRUE,
            !.session_id = IF transport_type(mcp_server_of(f)) = "STREAMABLE_HTTP"
                           THEN f.existing_mcp_session_id ELSE "none",
            !.need_initialize = TRUE,
            !.pc = "initialize"]
    ELSE [f EXCEPT !.opened = TRUE, !.raised = TRUE, !.exception = "connection refused",
                   !.pc = "forward_return"]

\* Mutant of open_transport_frame: _call_tool is never told to initialize.
open_transport_frame_never_initializes(f, ok) ==
    IF ok
    THEN [f EXCEPT
            !.opened = TRUE,
            !.session_id = IF transport_type(mcp_server_of(f)) = "STREAMABLE_HTTP"
                           THEN f.existing_mcp_session_id ELSE "none",
            !.need_initialize = FALSE,
            !.pc = "call_tool"]
    ELSE [f EXCEPT !.opened = TRUE, !.raised = TRUE, !.exception = "connection refused",
                   !.pc = "forward_return"]

\* Entering the transport client and the ClientSession. The streamable-HTTP
\* client starts with the held token as its session id; the SSE client has
\* none. _call_tool is entered with need_initialize = (no token held).
open_transport_frame(f, ok) ==
    IF ok
    THEN [f EXCEPT
            !.opened = TRUE,
            !.session_id = IF transport_type(mcp_server_of(f)) = "STREAMABLE_HTTP"
                           THEN f.existing_mcp_session_id ELSE "none",
            !.need_initialize = (f.existing_mcp_session_id = "none"),
            !.pc = IF f.existing_mcp_session_id = "none" THEN "initialize" ELSE "call_tool"]
    ELSE [f EXCEPT !.opened = TRUE, !.raised = TRUE, !.exception = "connection refused",
                   !.pc = "forward_return"]

open_transport(p) ==
    /\ frame[p].pc = "open"
    /\ \E ok \in BOOLEAN :
         frame' = [frame EXCEPT ![p] = open_transport_frame(frame[p], ok)]
    /\ UNCHANGED << outside_gateway, mcp_server_configurations, mcp_server_bundle, external_mcp_sessions,
                    mcp_tool_call_logs, dispatched, last_forward >>

\* The transport's session id after an initialize exchange: the id the
\* server's response carried, if it carried one.
session_id_after(f, t) == IF t = "none" THEN f.session_id ELSE t

\* if need_initialize: await client_session.initialize()
initialize_frame(f, o, t) ==
    LET g == [f EXCEPT !.n_initialize = @ + 1, !.last_initialize = o,
                       !.session_id = session_id_after(f, t)]
    IN  IF o.kind = "raise"
        THEN [g EXCEPT !.raised = TRUE, !.exception = o.message, !.pc = "forward_return"]
        ELSE IF o.kind = "mcperror"
        THEN [g EXCEPT !.tool_call_result = o, !.pc = after_call_tool(f)]
        ELSE [g EXCEPT !.pc = "call_tool_fresh"]

\* The tokens an initialize exchange can leave in the transport of f.
InitializeTokens(f, o) ==
    IF transport_type(mcp_server_of(f)) = "STREAMABLE_HTTP" /\ o.kind # "raise"
    THEN Tokens \cup {"none"} ELSE {"none"}

initialize(p) ==
    /\ frame[p].pc = "initialize"
    /\ \E o \in InitializeOutcomes : \E t \in InitializeTokens(frame[p], o) :
         frame' = [frame EXCEPT ![p] = initialize_frame(frame[p], o, t)]
    /\ UNCHANGED << outside_gateway, mcp_server_configurations, mcp_server_bundle, external_mcp_sessions,
                    mcp_tool_call_logs, dispatched, last_forward >>

\* One call_tool is issued; o is what comes back.
issued(f, o) ==
    [f EXCEPT
       !.sent = Append(@, [name |-> f.name, arguments |-> f.tool_arguments]),
       !.n_call_tool = @ + 1,
       !.first_attempt = IF f.n_call_tool = 0 THEN o ELSE @,
       !.last_attempt = o,
       !.stale = @ \/ (o.kind = "mcperror" /\ is_session_terminated(o))]

\* The call_tool after an initialize of this call: its result or its McpError
\* is returned.
call_tool_fresh_frame(f, o) ==
    LET g == issued(f, o)
    IN  IF o.kind = "raise"
        THEN [g EXCEPT !.raised = TRUE, !.exception = o.message, !.pc = "forward_return"]
        ELSE [g EXCEPT !.tool_call_result = o, !.pc = after_call_tool(f)]

call_tool_fresh(p) ==
    /\ frame[p].pc = "call_tool_fresh"
    /\ \E o \in CallToolOutcomes :
         frame' = [frame EXCEPT ![p] = call_tool_fresh_frame(frame[p], o)]
    /\ UNCHANGED << outside_gateway, mcp_server_configurations, mcp_server_bundle, external_mcp_sessions,
                    mcp_tool_call_logs, dispatched, last_forward >>

\* Mutant of call_tool_frame: the stale-session error is returned like any
\* other error.
call_tool_frame_never_retries(f, o) ==
    LET g == issued(f, o)
    IN  IF o.kind = "raise"
        THEN [g EXCEPT !.raised = TRUE, !.exception = o.message, !.pc = "forward_return"]
        ELSE [g EXCEPT !.tool_call_result = o, !.pc = after_call_tool(f)]

\* Mutant of call_tool_frame: every McpError leads to the re-initialize.
call_tool_frame_retries_any_error(f, o) ==
    LET g == issued(f, o)
    IN  IF o.kind = "raise"
        THEN [g EXCEPT !.raised = TRUE, !.exception = o.message, !.pc = "forward_return"]
        ELSE IF o.kind = "mcperror"
        THEN [g EXCEPT !.pc = "reinitialize"]
        ELSE [g EXCEPT !.tool_call_result = o, !.pc = after_call_tool(f)]

\* The call_tool on a held token: a stale-session McpError leads to the
\* re-initialize, any other McpError and a result are returned.
call_tool_frame(f, o) ==
    LET g == issued(f, o)
    IN  IF o.kind = "raise"
        THEN [g EXCEPT !.raised = TRUE, !.exception = o.message, !.pc = "forward_return"]
        ELSE IF o.kind = "mcperror" /\ is_session_terminated(o)
        THEN [g EXCEPT !.pc = "reinitialize"]
        ELSE [g EXCEPT !.tool_call_result = o, !.pc = after_call_tool(f)]

call_tool(p) ==
    /\ frame[p].pc = "call_tool"
    /\ \E o \in CallToolOutcomes :
         frame' = [frame EXCEPT ![p] = call_tool_frame(frame[p], o)]
    /\ UNCHANGED << outside_gateway, mcp_server_configurations, mcp_server_bundle, external_mcp_sessions,
                    mcp_tool_call_logs, dispatched, last_forward >>

\* Mutant of reinitialize_frame: the retry follows the initialize also when
\* the initialize was answered with a McpError.
reinitialize_frame_retries_after_error(f, o, t) ==
    LET g == [f EXCEPT !.n_initialize = @ + 1, !.last_initialize = o,
                       !.session_id = session_id_after(f, t)]
    IN  IF o.kind = "raise"
        THEN [g EXCEPT !.raised = TRUE, !.exception = o.message, !.pc = "forward_return"]
        ELSE [g EXCEPT !.pc = "retry"]

\* The initialize after a stale-session error: its McpError is returned.
reinitialize_frame(f, o, t) ==
    LET g == [f EXCEPT !.n_initialize = @ + 1, !.last_initialize = o,
                       !.session_id = session_id_after(f, t)]
    IN  IF o.kind = "raise"
        THEN [g EXCEPT !.raised = TRUE, !.exception = o.message, !.pc = "forward_return"]
        ELSE IF o.kind = "mcperror"
        THEN [g EXCEPT !.tool_call_result = o, !.pc = after_call_tool(f)]
        ELSE [g EXCEPT !.pc = "retry"]

reinitialize(p) ==
    /\ frame[p].pc = "reinitialize"
    /\ \E o \in InitializeOutcomes : \E t \in InitializeTokens(frame[p], o) :
         frame' = [frame EXCEPT ![p] = reinitialize_frame(frame[p], o, t)]
    /\ UNCHANGED << outside_gateway, mcp_server_configurations, mcp_server_bundle, external_mcp_sessions,
                    mcp_tool_call_logs, dispatched, last_forward >>

\* Mutant of retry_call_tool_frame: a stale-session error of the retry leads
\* to the re-initialize again.
retry_call_tool_frame_retries_again(f, o) ==
    LET g == issued(f, o)
    IN  IF o.kind = "raise"
        THEN [g EXCEPT !.raised = TRUE, !.exception = o.message, !.pc = "forward_return"]
        ELSE IF o.kind = "mcperror" /\ is_session_terminated(o)
        THEN [g EXCEPT !.pc = "reinitialize"]
        ELSE [g EXCEPT !.tool_call_result = o, !.pc = after_call_tool(f)]

\* The second call_tool: its result or its McpError is returned.
retry_call_tool_frame(f, o) ==
    LET g == issued(f, o)
    IN  IF o.kind = "raise"
        THEN [g EXCEPT !.raised = TRUE, !.exception = o.message, !.pc = "forward_return"]
        ELSE [g EXCEPT !.tool_call_result = o, !.pc = after_call_tool(f)]

retry_call_tool(p) ==
    /\ frame[p].pc = "retry"
    /\ \E o \in CallToolOutcomes :
         frame' = [frame EXCEPT ![p] = retry_call_tool_frame(frame[p], o)]
    /\ UNCHANGED << outside_gateway, mcp_server_configurations, mcp_server_bundle, external_mcp_sessions,
                    mcp_tool_call_logs, dispatched, last_forward >>

\* new_mcp_session_id is not None and new_mcp_session_id != existing_mcp_session_id
new_session_id_reported(f) ==
    f.session_id # "none" /\ f.session_id # f.existing_mcp_session_id

\* crud.mcp_sessions.update_session_external_mcp_session and the commit: the
\* token of that server is replaced.
update_session_external_mcp_session(sessions, mcp_server_id, new_mcp_session_id) ==
    [sessions EXCEPT ![mcp_server_id] = new_mcp_session_id]

\* Mutant of record_session_write: the session is left with the new token
\* alone.
record_session_write_alone(f, sessions) ==
    IF new_session_id_reported(f)
    THEN [s \in DOMAIN sessions |-> IF s = mcp_server_of(f) THEN f.session_id ELSE "none"]
    ELSE sessions

\* Mutant of record_session_write: the token is stored under a key that is not
\* the server's id.
record_session_write_under_one_key(f, sessions) ==
    IF new_session_id_reported(f)
    THEN update_session_external_mcp_session(sessions, "S1", f.session_id)
    ELSE sessions

\* The session's token map after the update of _forward_tool_call.
record_session_write(f, sessions) ==
    IF new_session_id_reported(f)
    THEN update_session_external_mcp_session(sessions, mcp_server_of(f), f.session_id)
    ELSE sessions

record_session_frame(f, sessions, ok) ==
    IF ~new_session_id_reported(f) THEN [f EXCEPT !.pc = "forward_return"]
    ELSE IF ok
    THEN [f EXCEPT !.recorded = TRUE, !.before = sessions[mcp_server_of(f)],
                   !.pc = "forward_return"]
    ELSE [f EXCEPT !.raised = TRUE, !.exception = "database error", !.pc = "forward_return"]

\* After _call_tool returned, in the streamable-HTTP branch: a token that is
\* present and differs from the one read is written to the session; the write
\* (or its commit) can raise.
record_session(p) ==
    /\ frame[p].pc = "record"
    /\ \E ok \in BOOLEAN :
         /\ ~new_session_id_reported(frame[p]) => ok
         /\ frame' = [frame EXCEPT ![p] =
                        record_session_frame(frame[p], external_mcp_sessions, ok)]
         /\ external_mcp_sessions' =
               IF ok THEN record_session_write(frame[p], external_mcp_sessions)
               ELSE external_mcp_sessions
    /\ UNCHANGED << outside_gateway, mcp_server_configurations, mcp_server_bundle,
                    mcp_tool_call_logs, dispatched, last_forward >>

\* Mutant of forward_return_frame: an exception of the forward is not caught.
forward_return_frame_uncaught(f) ==
    IF f.raised
    THEN [f EXCEPT !.exit = "Raised", !.pc = "returned"]
    ELSE IF f.tool_call_result.kind = "mcperror"
    THEN return_error(f, "McpError",
             ErrorData(f.tool_call_result.code, f.tool_call_result.message,
                       f.tool_call_result.data))
    ELSE [f EXCEPT
            !.tool_call_log_data.result = CallToolResult_model_dump(f.tool_call_result),
            !.tool_call_log_data.status = "SUCCESS",
            !.response = JSONRPCSuccessResponse(CallToolResult_model_dump(f.tool_call_result)),
            !.exit = "Success",
            !.pc = "log"]

\* Mutant of forward_return_frame: a protocol error whose code is one of the
\* gateway's own is replaced by the gateway's internal error.
forward_return_frame_masks_own_codes(f) ==
    IF f.raised
    THEN return_error(f, "ForwardException",
             ErrorData(JSONRPCErrorCode.INTERNAL_ERROR,
                       "Unknown error forwarding tool call", "none"))
    ELSE IF f.tool_call_result.kind = "mcperror"
    THEN IF f.tool_call_result.code = JSONRPCErrorCode.INTERNAL_ERROR
         THEN return_error(f, "McpError", InternalError)
         ELSE return_error(f, "McpError",
                  ErrorData(f.tool_call_result.code, f.tool_call_result.message,
                            f.tool_call_result.data))
    ELSE [f EXCEPT
            !.tool_call_log_data.result = CallToolResult_model_dump(f.tool_call_result),
            !.tool_call_log_data.status = "SUCCESS",
            !.response = JSONRPCSuccessResponse(CallToolResult_model_dump(f.tool_call_result)),
            !.exit = "Success",
            !.pc = "log"]

\* handle_execute_tool on what _forward_tool_call returned or raised.
forward_return_frame(f) ==
    IF f.raised
    THEN return_error(f, "ForwardException",
             ErrorData(JSONRPCErrorCode.INTERNAL_ERROR,
                       "Unknown error forwarding tool call", "none"))
    ELSE IF f.tool_call_result.kind = "mcperror"
    THEN return_error(f, "McpError",
             ErrorData(f.tool_call_result.code, f.tool_call_result.message,
                       f.tool_call_result.data))
    ELSE [f EXCEPT
            !.tool_call_log_data.result = CallToolResult_model_dump(f.tool_call_result),
            !.tool_call_log_data.status = "SUCCESS",
            !.response = JSONRPCSuccessResponse(CallToolResult_model_dump(f.tool_call_result)),
            !.exit = "Success",
            !.pc = "log"]

forward_return(p) ==
    /\ frame[p].pc = "forward_return"
    /\ frame' = [frame EXCEPT ![p] = forward_return_frame(frame[p])]
    /\ last_forward' = [last_forward EXCEPT ![mcp_server_of(frame[p])] =
          IF /\ frame[p].existing_mcp_session_id = "none"
             /\ ~frame[p].stale /\ ~frame[p].raised
             /\ frame[p].tool_call_result.kind = "result"
          THEN [seen |-> TRUE, first_call |-> TRUE,
                n_initialize |-> frame[p].n_initialize,
                after |-> external_mcp_sessions[mcp_server_of(frame[p])]]
          ELSE OtherForward]
    /\ UNCHANGED << outside_gateway, mcp_server_configurations, mcp_server_bundle, external_mcp_sessions,
                    mcp_tool_call_logs, dispatched >>

----------------------------------------------------------------------------
(* The audit write and the end of the request *)

\* _create_tool_call_log and the return of handle_tools_call. A failed
\* validation is logged and the insert is still tried; a failed insert is
\* logged. error says what fails: "none", "validate" (the validation raises,
\* the insert goes through), "create" (the insert raises before the session
\* is touched) or "flush" (the flush raises, which leaves the session's
\* transaction inactive until a rollback). handle_execute_tool has returned:
\* of its locals the frame keeps the two values it returned and how it ended.
create_tool_call_log_frame(f, error) ==
    [IdleFrame EXCEPT
       !.params_name = f.params_name,
       !.arguments = f.arguments,
       !.tool_call_log_data = f.tool_call_log_data,
       !.response = f.response,
       !.exit = f.exit,
       !.request = f.request,
       !.n_create = f.n_create + 1,
       !.log_failure = error,
       !.db_session = IF error = "flush" THEN "inactive" ELSE f.db_session,
       !.returned = f.response,
       !.pc = "returned"]

create_tool_call_log(p) ==
    /\ frame[p].pc = "log"
    /\ \E error \in {"none", "validate", "create", "flush"} :
         /\ frame' = [frame EXCEPT ![p] = create_tool_call_log_frame(frame[p], error)]
         /\ mcp_tool_call_logs' =
               IF error \in {"none", "validate"}
               THEN mcp_tool_call_logs + 1
               ELSE mcp_tool_call_logs
    /\ UNCHANGED << outside_gateway, mcp_server_configurations, mcp_server_bundle, external_mcp_sessions,
                    dispatched, last_forward >>

\* yield_db_session after the handler returned: commit; a commit on a session
\* whose flush failed raises, the session is rolled back and the exception is
\* raised again, so the request ends with an exception. The handlers have
\* returned: of their locals only the response and how the audit write went
\* are kept.
db_session_commit_frame(f) ==
    LET g == [IdleFrame EXCEPT !.pc = "closed", !.params_name = f.params_name,
                               !.response = f.response, !.returned = f.returned,
                               !.log_failure = f.log_failure]
    IN  IF f.db_session = "inactive"
        THEN [g EXCEPT !.request = "raised"]
        ELSE [g EXCEPT !.request = "responded"]

db_session_commit(p) ==
    /\ frame[p].pc = "returned"
    /\ frame' = [frame EXCEPT ![p] = db_session_commit_frame(frame[p])]
    /\ UNCHANGED << outside_gateway, mcp_server_configurations, mcp_server_bundle, external_mcp_sessions,
                    mcp_tool_call_logs, dispatched, last_forward >>

\* The request is over; its slot serves the next one.
request_end(p) ==
    /\ frame[p].pc = "closed"
    /\ frame' = [frame EXCEPT ![p] = IdleFrame]
    /\ UNCHANGED << outside_gateway, mcp_server_configurations, mcp_server_bundle, external_mcp_sessions,
                    mcp_tool_call_logs, dispatched, last_forward >>

----------------------------------------------------------------------------
(* track_duration *)

\* The readings of datetime.now(UTC), in microseconds. It is the wall clock:
\* a later reading can be earlier than a former one when the clock is set back.
Instants == {0, 400, 1001000, 1001400}

\* The ways handle_execute_tool returns; each returns (response, entry).
Exits == {"InvalidParams", "ToolNotFound", "ServiceNotConfigured", "ToolNotEnabled",
          "ResourceException", "CredentialException", "McpError", "ForwardException",
          "Success"}

\* The microsecond differences of Instants whose total_seconds() * 1000, as a
\* double, falls just below the whole number (1.001 * 1000 = 1000.9999999999999).
FloatBelow == {1001000}

\* int(timedelta.total_seconds() * 1000) of a difference of d microseconds:
\* the double product, truncated towards zero.
total_seconds_ms(d) ==
    LET m == IF d >= 0 THEN d ELSE -d
        q == IF m \in FloatBelow THEN (m \div 1000) - 1 ELSE m \div 1000
    IN  IF d >= 0 THEN q ELSE -q

\* started_at = datetime.now(UTC); result = None
wrapper_enter ==
    /\ wrapper.pc = "idle"
    /\ \E now \in Instants :
         wrapper' = [IdleWrapper EXCEPT !.pc = "await", !.started_at = now]
    /\ UNCHANGED << gateway_vars, logs_vars >>

\* result = await func(*args, **kwargs): handle_execute_tool returns its pair.
wrapper_await ==
    /\ wrapper.pc = "await"
    /\ \E exit \in Exits : wrapper' = [wrapper EXCEPT !.pc = "finally", !.result = exit]
    /\ UNCHANGED << gateway_vars, logs_vars >>

\* Mutant of wrapper_finally_frame: the times are set for a success only.
wrapper_finally_frame_success_only(w, now) ==
    IF w.result = "Success"
    THEN [w EXCEPT !.pc = "returned", !.now_at_exit = now,
                   !.log_duration_ms = total_seconds_ms(now - w.started_at),
                   !.log_ended_at = now,
                   !.log_started_at = w.started_at,
                   !.populated = {"duration_ms", "ended_at", "started_at"}]
    ELSE [w EXCEPT !.pc = "returned", !.now_at_exit = now]

\* The finally block: result is a pair whose second element is the entry, so
\* ended_at is read and the three fields are assigned.
wrapper_finally_frame(w, now) ==
    IF w.result # "none"
    THEN [w EXCEPT !.pc = "returned", !.now_at_exit = now,
                   !.log_duration_ms = total_seconds_ms(now - w.started_at),
                   !.log_ended_at = now,
                   !.log_started_at = w.started_at,
                   !.populated = {"duration_ms", "ended_at", "started_at"}]
    ELSE [w EXCEPT !.pc = "returned", !.now_at_exit = now]

wrapper_finally ==
    /\ wrapper.pc = "finally"
    /\ \E now \in Instants : wrapper' = wrapper_finally_frame(wrapper, now)
    /\ UNCHANGED << gateway_vars, logs_vars >>

\* The call is over.
wrapper_return ==
    /\ wrapper.pc = "returned"
    /\ wrapper' = IdleWrapper
    /\ UNCHANGED << gateway_vars, logs_vars >>

----------------------------------------------------------------------------
(* The audit table and its list queries: crud/mcp_tool_call_logs.py *)

\* The ids of the rows of the table, in the order of their ids.
NumLogs == 4

\* The largest page size asked for (the route accepts 1..100).
MaxLimit == 2

\* started_at of a row, in days.
Times == {2, 5, 11}

Organizations == {"O1", "O2"}
Users == {"U1", "U2"}
ADMIN == "admin"
MEMBER == "member"

\* An optional value that is given.
Some(v) == [some |-> v]

\* The columns the bundle of the call gave the row: organization O1 holds
\* rows of both users, and user U1 has rows in both organizations.
organization_of(id) == IF id % 4 = 0 THEN "O2" ELSE "O1"
user_of(id) == IF id % 3 = 0 THEN "U2" ELSE "U1"
mcp_tool_name_of(id) ==
    IF id % 3 = 0 THEN <<"5", "%", "\\">>
    ELSE IF id % 2 = 0 THEN <<"G", "e", "t">> ELSE <<"s", "e", "_">>

\* The row create() inserted for a call that started at the given time.
MCPToolCallLog(id, started_at) ==
    [id |-> id, started_at |-> started_at, organization_id |-> organization_of(id),
     user_id |-> user_of(id), mcp_tool_name |-> mcp_tool_name_of(id)]

\* The tables the queries are run on: every row at any of the times, so that
\* rows share started_at and rows lie on and beside the bounds of a window.
LogTables ==
    { { MCPToolCallLog(id, at[id]) : id \in 1..NumLogs } : at \in [1..NumLogs -> Times] }

\* str.lower() of a character of a tool name.
lower(c) == CASE c = "G" -> "g" [] c = "E" -> "e" [] c = "T" -> "t" [] c = "S" -> "s"
              [] OTHER -> c

\* str.replace(old, new) for a character old and a text new.
RECURSIVE replace(_, _, _)
replace(text, old, new) ==
    IF text = <<>> THEN <<>>
    ELSE IF text[1] = old THEN new \o replace(Tail(text), old, new)
    ELSE <<text[1]>> \o replace(Tail(text), old, new)

\* Mutant of escaped: the search text is used as it is.
escaped_nothing(text) == text

\* mcp_tool_name.replace("\\", "\\\\").replace("%", "\\%").replace("_", "\\_")
escaped(text) ==
    replace(replace(replace(text, "\\", <<"\\", "\\">>), "%", <<"\\", "%">>),
            "_", <<"\\", "_">>)

\* column.ilike(pattern, escape="\\"): % is any run of characters, _ any one
\* character, a character after the escape is itself; case is ignored.
RECURSIVE ilike(_, _)
ilike(text, pattern) ==
    IF pattern = <<>> THEN text = <<>>
    ELSE IF pattern[1] = "\\" /\ Len(pattern) >= 2
    THEN /\ text # <<>>
         /\ lower(text[1]) = lower(pattern[2])
         /\ ilike(Tail(text), SubSeq(pattern, 3, Len(pattern)))
    ELSE IF pattern[1] = "%"
    THEN ilike(text, Tail(pattern)) \/ (text # <<>> /\ ilike(Tail(text), pattern))
    ELSE IF pattern[1] = "_"
    THEN text # <<>> /\ ilike(Tail(text), Tail(pattern))
    ELSE /\ text # <<>>
         /\ lower(text[1]) = lower(pattern[1])
         /\ ilike(Tail(text), Tail(pattern))

\* Row a comes before row b in ORDER BY started_at DESC, id DESC.
desc_started_at_id(a, b) ==
    \/ a.started_at > b.started_at
    \/ a.started_at = b.started_at /\ a.id > b.id

\* The rows of a set in ORDER BY started_at DESC, id DESC.
RECURSIVE order_by(_)
order_by(rows) ==
    IF rows = {} THEN <<>>
    ELSE LET first == CHOOSE r \in rows : \A o \in rows \ {r} : desc_started_at_id(r, o)
         IN  <<first>> \o order_by(rows \ {first})

\* Mutant of where: the row at the cursor's position is after the cursor too.
where_cursor_inclusive(r, cursor, mcp_tool_name, start_time, end_time, organization_id, user_id) ==
    /\ organization_id # NoValue => r.organization_id = organization_id.some
    /\ user_id # NoValue => r.user_id = user_id.some
    /\ (mcp_tool_name # NoValue /\ mcp_tool_name.some # <<>>) =>
          ilike(r.mcp_tool_name, <<"%">> \o escaped(mcp_tool_name.some) \o <<"%">>)
    /\ start_time # NoValue => r.started_at >= start_time.some
    /\ end_time # NoValue => r.started_at <= end_time.some
    /\ cursor # NoValue =>
          \/ r.started_at < cursor.some.started_at.timestamp
          \/ r.started_at = cursor.some.started_at.timestamp /\ r.id <= cursor.some.id

\* The WHERE clause of the statement: every filter that is given, and the
\* position of the cursor.
where(r, cursor, mcp_tool_name, start_time, end_time, organization_id, user_id) ==
    /\ organization_id # NoValue => r.organization_id = organization_id.some
    /\ user_id # NoValue => r.user_id = user_id.some
    /\ (mcp_tool_name # NoValue /\ mcp_tool_name.some # <<>>) =>
          ilike(r.mcp_tool_name, <<"%">> \o escaped(mcp_tool_name.some) \o <<"%">>)
    /\ start_time # NoValue => r.started_at >= start_time.some
    /\ end_time # NoValue => r.started_at <= end_time.some
    /\ cursor # NoValue =>
          \/ r.started_at < cursor.some.started_at.timestamp
          \/ r.started_at = cursor.some.started_at.timestamp /\ r.id < cursor.some.id

\* Mutant of _get: the rows after the cursor are those of an earlier
\* started_at only.
_get_cursor_by_time_only(table, limit, cursor, mcp_tool_name, start_time, end_time, organization_id, user_id) ==
    LET statement == { r \in table :
                         /\ where(r, NoValue, mcp_tool_name, start_time, end_time, organization_id, user_id)
                         /\ cursor # NoValue => r.started_at < cursor.some.started_at.timestamp }
        ordered == order_by(statement)
        results == SubSeq(ordered, 1, IF Len(ordered) > limit THEN limit + 1 ELSE Len(ordered))
    IN  IF Len(results) > limit
        THEN [logs |-> SubSeq(results, 1, limit), next_log |-> Some(results[limit])]
        ELSE [logs |-> results, next_log |-> NoValue]

\* Mutant of _get: the scope filters are left out.
_get_unscoped(table, limit, cursor, mcp_tool_name, start_time, end_time, organization_id, user_id) ==
    LET statement == { r \in table :
                         where(r, cursor, mcp_tool_name, start_time, end_time, NoValue, NoValue) }
        ordered == order_by(statement)
        results == SubSeq(ordered, 1, IF Len(ordered) > limit THEN limit + 1 ELSE Len(ordered))
    IN  IF Len(results) > limit
        THEN [logs |-> SubSeq(results, 1, limit), next_log |-> Some(results[limit])]
        ELSE [logs |-> results, next_log |-> NoValue]

\* Mutant of _get: the window is open at both bounds.
_get_open_window(table, limit, cursor, mcp_tool_name, start_time, end_time, organization_id, user_id) ==
    LET statement == { r \in table :
                         /\ where(r, cursor, mcp_tool_name, NoValue, NoValue, organization_id, user_id)
                         /\ start_time # NoValue => r.started_at > start_time.some
                         /\ end_time # NoValue => r.started_at < end_time.some }
        ordered == order_by(statement)
        results == SubSeq(ordered, 1, IF Len(ordered) > limit THEN limit + 1 ELSE Len(ordered))
    IN  IF Len(results) > limit
        THEN [logs |-> SubSeq(results, 1, limit), next_log |-> Some(results[limit])]
        ELSE [logs |-> results, next_log |-> NoValue]

\* Mutant of _get: the next cursor is built from the first row of the page.
_get_next_log_from_first_row(table, limit, cursor, mcp_tool_name, start_time, end_time, organization_id, user_id) ==
    LET statement == { r \in table :
                         where(r, cursor, mcp_tool_name, start_time, end_time, organization_id, user_id) }
        ordered == order_by(statement)
        results == SubSeq(ordered, 1, IF Len(ordered) > limit THEN limit + 1 ELSE Len(ordered))
    IN  IF Len(results) > limit
        THEN [logs |-> SubSeq(results, 1, limit), next_log |-> Some(results[1])]
        ELSE [logs |-> results, next_log |-> NoValue]

\* Mutant of _get: the next cursor is built from the extra row fetched.
_get_next_log_from_extra_row(table, limit, cursor, mcp_tool_name, start_time, end_time, organization_id, user_id) ==
    LET statement == { r \in table :
                         where(r, cursor, mcp_tool_name, start_time, end_time, organization_id, user_id) }
        ordered == order_by(statement)
        results == SubSeq(ordered, 1, IF Len(ordered) > limit THEN limit + 1 ELSE Len(ordered))
    IN  IF Len(results) > limit
        THEN [logs |-> SubSeq(results, 1, limit), next_log |-> Some(results[limit + 1])]
        ELSE [logs |-> results, next_log |-> NoValue]

\* Mutant of _get: has_more = len(results) >= limit.
_get_has_more_at_limit(table, limit, cursor, mcp_tool_name, start_time, end_time, organization_id, user_id) ==
    LET statement == { r \in table :
                         where(r, cursor, mcp_tool_name, start_time, end_time, organization_id, user_id) }
        ordered == order_by(statement)
        results == SubSeq(ordered, 1, IF Len(ordered) > limit THEN limit + 1 ELSE Len(ordered))
    IN  IF Len(results) >= limit
        THEN [logs |-> SubSeq(results, 1, limit), next_log |-> Some(results[limit])]
        ELSE [logs |-> results, next_log |-> NoValue]

\* _get: the matching rows in order, limit + 1 of them fetched; with more
\* than limit, the first limit rows and the last of them, else all and None.
_get(table, limit, cursor, mcp_tool_name, start_time, end_time, organization_id, user_id) ==
    LET statement == { r \in table :
                         where(r, cursor, mcp_tool_name, start_time, end_time, organization_id, user_id) }
        ordered == order_by(statement)
        results == SubSeq(ordered, 1, IF Len(ordered) > limit THEN limit + 1 ELSE Len(ordered))
    IN  IF Len(results) > limit
        THEN [logs |-> SubSeq(results, 1, limit), next_log |-> Some(results[limit])]
        ELSE [logs |-> results, next_log |-> NoValue]

get_by_org(table, organization_id, limit, start_time, end_time, cursor, mcp_tool_name) ==
    _get(table, limit, cursor, mcp_tool_name, Some(start_time), Some(end_time), Some(organization_id), NoValue)

get_by_user(table, user_id, limit, start_time, end_time, cursor, mcp_tool_name) ==
    _get(table, limit, cursor, mcp_tool_name, Some(start_time), Some(end_time), NoValue, Some(user_id))

\* A datetime: the instant it denotes and the tzinfo it carries ("naive" for
\* none).
datetime(timestamp, tzinfo) == [timestamp |-> timestamp, tzinfo |-> tzinfo]

\* started_at as a row of the table gives it: aware, in UTC.
utc(timestamp) == datetime(timestamp, "UTC")

\* Mutant of isoformat: the offset is not written.
isoformat_without_offset(started_at) ==
    [clock |-> Some(started_at.timestamp), offset |-> ""]

\* datetime.isoformat(): the reading of the clock, followed by the UTC offset
\* when the datetime is aware.
isoformat(started_at) ==
    [clock |-> Some(started_at.timestamp),
     offset |-> CASE started_at.tzinfo = "UTC" -> "+00:00"
                  [] started_at.tzinfo = "naive" -> ""
                  [] OTHER -> started_at.tzinfo]

\* A text that is no ISO timestamp ("not-a-timestamp").
NotATimestamp == [clock |-> NoValue, offset |-> ""]

\* datetime.fromisoformat(): the datetime of the text; ValueError for a text
\* that holds no clock reading.
fromisoformat(text) ==
    IF text.clock = NoValue THEN [raised |-> "ValueError"]
    ELSE [raised |-> "none",
          value |-> datetime(text.clock.some,
                             CASE text.offset = "+00:00" -> "UTC"
                               [] text.offset = "" -> "naive"
                               [] OTHER -> text.offset)]

\* str(UUID): the canonical text of an id.
str(id) == [hex |-> Some(id)]

\* A text that is no UUID ("invalid-uuid").
NotAUuid == [hex |-> NoValue]

\* UUID(text): the id of the text; ValueError for a text that holds no
\* hexadecimal id.
UUID(text) ==
    IF text.hex = NoValue THEN [raised |-> "ValueError"]
    ELSE [raised |-> "none", value |-> text.hex.some]

\* A cursor string. Of its characters, those of the base64 alphabet spell
\* (when padded to a multiple of four) the bytes json; foreign tells that
\* characters outside the alphabet stand among them. json is the object the
\* bytes are the JSON text of, none when they are no JSON.
CursorString(foreign, padded, json) ==
    [foreign |-> foreign, padded |-> padded, json |-> json]

\* json.dumps(payload) of encode: both fields, as texts.
payload(started_at, id) == [started_at |-> Some(started_at), id |-> Some(id)]

\* MCPToolCallLogCursor.encode: the URL-safe base64 text of the JSON payload
\* {"started_at": isoformat, "id": str}.
encode(started_at, id) ==
    CursorString(FALSE, TRUE, Some(payload(isoformat(started_at), str(id))))

\* "invalid_cursor": fourteen characters of the alphabet, not a multiple of
\* four.
InvalidCursor == CursorString(FALSE, FALSE, NoValue)

\* MCPToolCallLogCursor.decode. base64.urlsafe_b64decode discards the
\* characters outside the alphabet and raises binascii.Error when what is
\* left is not padded; json.loads raises on bytes that are no JSON;
\* data["started_at"] and data["id"] raise KeyError when missing;
\* fromisoformat and UUID raise ValueError. started_at is evaluated first.
decode(cursor) ==
    IF ~cursor.padded THEN [raised |-> "binascii.Error"]
    ELSE IF cursor.json = NoValue THEN [raised |-> "JSONDecodeError"]
    ELSE IF cursor.json.some.started_at = NoValue THEN [raised |-> "KeyError"]
    ELSE IF fromisoformat(cursor.json.some.started_at.some).raised # "none"
    THEN [raised |-> "ValueError"]
    ELSE IF cursor.json.some.id = NoValue THEN [raised |-> "KeyError"]
    ELSE IF UUID(cursor.json.some.id.some).raised # "none" THEN [raised |-> "ValueError"]
    ELSE [raised |-> "none",
          started_at |-> fromisoformat(cursor.json.some.started_at.some).value,
          id |-> UUID(cursor.json.some.id.some).value]

\* The timestamps handed to encode: aware in UTC, aware at another offset,
\* naive.
Datetimes == { datetime(t, z) : t \in Times, z \in {"UTC", "+01:00", "naive"} }

\* The strings handed to decode: with and without characters outside the
\* alphabet, padded or not, spelling no JSON or an object whose fields are
\* missing, unparsable or well-formed.
CursorStrings ==
    { CursorString(foreign, padded, json) :
        foreign \in BOOLEAN, padded \in BOOLEAN,
        json \in {NoValue} \cup
                 { Some([started_at |-> a, id |-> b]) :
                     a \in {NoValue, Some(NotATimestamp), Some(isoformat(utc(5)))},
                     b \in {NoValue, Some(NotAUuid), Some(str(2))} } }

\* A timestamp and an id are encoded, and the cursor string is decoded.
cursor_round_trip ==
    /\ cursor_call.pc = "idle"
    /\ \E started_at \in Datetimes, id \in 1..NumLogs :
         cursor_call' = [pc |-> "encoded", started_at |-> started_at, id |-> id,
                         cursor |-> encode(started_at, id),
                         decoded |-> decode(encode(started_at, id))]
    /\ UNCHANGED << gateway_vars, wrapper, tool_call_logs, walk, route_call >>

\* The same timestamp and id are encoded once more.
cursor_encode_again ==
    /\ cursor_call.pc = "encoded"
    /\ cursor_call' = [pc |-> "encoded_again", started_at |-> cursor_call.started_at,
                       id |-> cursor_call.id, cursor |-> cursor_call.cursor,
                       decoded |-> cursor_call.decoded,
                       again |-> encode(cursor_call.started_at, cursor_call.id)]
    /\ UNCHANGED << gateway_vars, wrapper, tool_call_logs, walk, route_call >>

\* A string from a caller is decoded.
cursor_decode ==
    /\ cursor_call.pc = "idle"
    /\ \E cursor \in CursorStrings :
         cursor_call' = [pc |-> "decoded", cursor |-> cursor, decoded |-> decode(cursor)]
    /\ UNCHANGED << gateway_vars, wrapper, tool_call_logs, walk, route_call >>

\* The call is over.
cursor_return ==
    /\ cursor_call.pc # "idle"
    /\ cursor_call' = IdleCursorCall
    /\ UNCHANGED << gateway_vars, wrapper, tool_call_logs, walk, route_call >>

\* The query of a walk: the scope decides between get_by_org and get_by_user.
query(table, w, cursor) ==
    IF w.scope = "organization"
    THEN get_by_org(table, w.scope_id, w.limit, w.start_time, w.end_time, cursor, w.mcp_tool_name)
    ELSE get_by_user(table, w.scope_id, w.limit, w.start_time, w.end_time, cursor, w.mcp_tool_name)

\* The cursor the next request carries: next_log encoded, sent, decoded.
next_cursor_of(page) ==
    IF page.next_log = NoValue THEN NoValue
    ELSE LET c == decode(encode(utc(page.next_log.some.started_at), page.next_log.some.id))
         IN  Some([started_at |-> c.started_at, id |-> c.id])

\* The tool-name filters asked for: none, and a text in another case.
NameFilters == {NoValue, Some(<<"E", "T">>)}

\* The cursors a walk starts from: none (the first page), and the position
\* of a row.
FirstCursors == {NoValue, Some([started_at |-> utc(5), id |-> 2])}

\* The first request of a walk.
walk_first ==
    /\ walk.pc = "idle"
    /\ \E scope \in {"organization", "user"}, limit \in 1..MaxLimit,
          start_time \in {2, 5}, end_time \in {5, 11},
          mcp_tool_name \in NameFilters, cursor \in FirstCursors :
         \E scope_id \in (IF scope = "organization" THEN Organizations ELSE Users) :
           LET w == [scope |-> scope, scope_id |-> scope_id, limit |-> limit,
                     start_time |-> start_time, end_time |-> end_time,
                     mcp_tool_name |-> mcp_tool_name, first_cursor |-> cursor]
               page == query(tool_call_logs, w, cursor)
           IN  walk' = [pc |-> "walking", request |-> w, cursor |-> cursor,
                        pages |-> <<page.logs>>, next_cursor |-> next_cursor_of(page)]
    /\ UNCHANGED << gateway_vars, wrapper, tool_call_logs, route_call, cursor_call >>

\* The search texts: plain letters in another case, the wildcards of LIKE and
\* its escape character alone and among letters, and the empty text.
SearchTexts ==
    { <<"E", "T">>, <<"_">>, <<"%">>, <<"\\">>, <<"g", "_", "t">>, <<"E", "_">>,
      <<"5", "%", "\\">>, <<"s", "%">>, << >> }

\* The first request of a walk with a search text: the entries of
\* organization O1 whose tool name holds the text.
walk_search ==
    /\ walk.pc = "idle"
    /\ \E text \in SearchTexts, limit \in 1..MaxLimit :
         LET w == [scope |-> "organization", scope_id |-> "O1", limit |-> limit,
                   start_time |-> 2, end_time |-> 11,
                   mcp_tool_name |-> Some(text), first_cursor |-> NoValue]
             page == query(tool_call_logs, w, NoValue)
         IN  walk' = [pc |-> "walking", request |-> w, cursor |-> NoValue,
                      pages |-> <<page.logs>>, next_cursor |-> next_cursor_of(page)]
    /\ UNCHANGED << gateway_vars, wrapper, tool_call_logs, route_call, cursor_call >>

\* The next request of a walk: the same query from the cursor returned.
walk_next ==
    /\ walk.pc = "walking"
    /\ walk.next_cursor # NoValue
    /\ LET page == query(tool_call_logs, walk.request, walk.next_cursor)
       IN  walk' = [walk EXCEPT !.cursor = walk.next_cursor,
                                !.pages = Append(@, page.logs),
                                !.next_cursor = next_cursor_of(page)]
    /\ UNCHANGED << gateway_vars, wrapper, tool_call_logs, route_call, cursor_call >>

\* The walk is over when no cursor came back.
walk_end ==
    /\ walk.pc = "walking"
    /\ walk.next_cursor = NoValue
    /\ walk' = IdleWalk
    /\ UNCHANGED << gateway_vars, wrapper, tool_call_logs, route_call, cursor_call >>

----------------------------------------------------------------------------
(* GET /tool-calls: control_plane/routes/logs.py *)

\* timedelta(days=7): how far back the list reaches.
RetentionDays == 7

\* The readings of datetime.now(UTC) when a request arrives, in days.
Nows == {9, 10}

\* The callers: their user id and the organization and role they act in.
RequestContexts ==
    { [user_id |-> "U1", act_as |-> [organization_id |-> "O1", role |-> ADMIN]],
      [user_id |-> "U1", act_as |-> [organization_id |-> "O1", role |-> MEMBER]],
      [user_id |-> "U2", act_as |-> [organization_id |-> "O1", role |-> MEMBER]],
      [user_id |-> "U1", act_as |-> [organization_id |-> "O2", role |-> MEMBER]] }

\* The cursor of a row with characters outside the base64 alphabet put in
\* (such as "!" or a blank).
ForeignCursor == CursorString(TRUE, TRUE, encode(utc(5), 2).json)

\* pagination.cursor: none, the cursor of a row, a text that is no cursor,
\* the cursor of a row with characters outside the alphabet put in.
RequestCursors ==
    {NoValue, Some(encode(utc(5), 2)), Some(InvalidCursor), Some(ForeignCursor)}

\* filters.start_time and filters.end_time: none, long ago, in the window,
\* in the future.
RequestTimes == {NoValue, Some(1), Some(5), Some(12)}

\* Mutant of clamped_start_time: the start asked for is kept, however old.
clamped_start_time_as_given(start_time, current_time) ==
    IF start_time = NoValue THEN current_time - RetentionDays ELSE start_time.some

\* filters.start_time after lines 42-43.
clamped_start_time(start_time, current_time) ==
    IF start_time = NoValue \/ start_time.some < current_time - RetentionDays
    THEN current_time - RetentionDays
    ELSE start_time.some

\* filters.end_time after lines 44-45.
clamped_end_time(end_time, current_time) ==
    IF end_time = NoValue \/ end_time.some > current_time
    THEN current_time
    ELSE end_time.some

\* Mutant of time_range_invalid: the query is run on any range.
time_range_invalid_never(start_time, end_time) == FALSE

\* if filters.end_time < filters.start_time
time_range_invalid(start_time, end_time) == end_time < start_time

\* A response of the route; queried tells whether the store was asked, and
\* start_time and end_time are the filters as the handler left them.
Response(status_code, detail, data, next_cursor, queried, start_time, end_time) ==
    [status_code |-> status_code, detail |-> detail, data |-> data,
     next_cursor |-> next_cursor, queried |-> queried,
     start_time |-> start_time, end_time |-> end_time]

\* Mutant of get_tool_call_logs: every role is served by get_by_org.
get_tool_call_logs_by_org_for_all(table, context, pagination, filters, current_time) ==
    LET decoded == IF pagination.cursor = NoValue THEN [raised |-> "none"]
                   ELSE decode(pagination.cursor.some)
        cursor == IF pagination.cursor = NoValue THEN NoValue
                  ELSE Some([started_at |-> decoded.started_at, id |-> decoded.id])
        start_time == clamped_start_time(filters.start_time, current_time)
        end_time == clamped_end_time(filters.end_time, current_time)
        page == get_by_org(table, context.act_as.organization_id, pagination.limit,
                           start_time, end_time, cursor, filters.mcp_tool_name)
    IN  IF decoded.raised # "none"
        THEN Response(400, "Invalid cursor", <<>>, NoValue, FALSE,
                      filters.start_time, filters.end_time)
        ELSE IF time_range_invalid(start_time, end_time)
        THEN Response(200, "none", <<>>, NoValue, FALSE, Some(start_time), Some(end_time))
        ELSE Response(200, "none", page.logs,
                      IF page.next_log = NoValue THEN NoValue
                      ELSE Some(encode(utc(page.next_log.some.started_at),
                                       page.next_log.some.id)),
                      TRUE, Some(start_time), Some(end_time))

\* get_tool_call_logs: the cursor is decoded, the window is clamped to the
\* last seven days, an empty window is answered without a query, and the
\* acting role chooses the query.
get_tool_call_logs(table, context, pagination, filters, current_time) ==
    LET decoded == IF pagination.cursor = NoValue THEN [raised |-> "none"]
                   ELSE decode(pagination.cursor.some)
        cursor == IF pagination.cursor = NoValue THEN NoValue
                  ELSE Some([started_at |-> decoded.started_at, id |-> decoded.id])
        start_time == clamped_start_time(filters.start_time, current_time)
        end_time == clamped_end_time(filters.end_time, current_time)
        page == IF context.act_as.role = ADMIN
                THEN get_by_org(table, context.act_as.organization_id, pagination.limit,
                                start_time, end_time, cursor, filters.mcp_tool_name)
                ELSE get_by_user(table, context.user_id, pagination.limit,
                                 start_time, end_time, cursor, filters.mcp_tool_name)
    IN  IF decoded.raised # "none"
        THEN Response(400, "Invalid cursor", <<>>, NoValue, FALSE,
                      filters.start_time, filters.end_time)
        ELSE IF time_range_invalid(start_time, end_time)
        THEN Response(200, "none", <<>>, NoValue, FALSE, Some(start_time), Some(end_time))
        ELSE Response(200, "none", page.logs,
                      IF page.next_log = NoValue THEN NoValue
                      ELSE Some(encode(utc(page.next_log.some.started_at),
                                       page.next_log.some.id)),
                      TRUE, Some(start_time), Some(end_time))

\* One request to the route, answered.
list_tool_calls ==
    /\ route_call.pc = "idle"
    /\ \E context \in RequestContexts, cursor \in RequestCursors,
          start_time \in RequestTimes, end_time \in RequestTimes,
          mcp_tool_name \in NameFilters, current_time \in Nows :
         LET pagination == [cursor |-> cursor, limit |-> MaxLimit]
             filters == [start_time |-> start_time, end_time |-> end_time,
                         mcp_tool_name |-> mcp_tool_name]
         IN  route_call' =
               [pc |-> "responded", context |-> context, pagination |-> pagination,
                filters |-> filters, current_time |-> current_time,
                response |-> get_tool_call_logs(tool_call_logs, context, pagination,
                                                filters, current_time)]
    /\ UNCHANGED << gateway_vars, wrapper, tool_call_logs, walk, cursor_call >>

\* The response has been sent.
list_tool_calls_done ==
    /\ route_call.pc = "responded"
    /\ route_call' = IdleRouteCall
    /\ UNCHANGED << gateway_vars, wrapper, tool_call_logs, walk, cursor_call >>

----------------------------------------------------------------------------
(* A caller pages through GET /tool-calls while dispatches write entries *)

\* How many entries are written while a walk can be under way.
MaxInserts == 1

\* crud.mcp_tool_call_logs.create: the row is added to the table.
create(table, log) == table \cup {log}

\* The tables a walk meets: those of LogTables with up to MaxInserts rows
\* not written yet.
TablesBeforeInserts ==
    { t \ later : t \in LogTables,
                  later \in { l \in SUBSET { MCPToolCallLog(id, at) : id \in 1..NumLogs, at \in Times } :
                                Cardinality(l) <= MaxInserts } }

\* The callers that walk: the admin of O1 and user U1 as a member.
WalkContexts ==
    { c \in RequestContexts : c.user_id = "U1" /\ c.act_as.organization_id = "O1" }

\* A dispatch ends and its entry is written: its id is none of the table's,
\* its started_at any of the times (a long call writes an old started_at).
create_tool_call_log_row ==
    /\ \E id \in 1..NumLogs, at \in Times :
         /\ \A r \in tool_call_logs : r.id # id
         /\ tool_call_logs' = create(tool_call_logs, MCPToolCallLog(id, at))
    /\ UNCHANGED << gateway_vars, wrapper, walk, route_call, cursor_call >>

\* The first page request of a walk: no cursor; the caller's start_time, if
\* given, stays the same through the walk.
route_walk_first ==
    /\ walk.pc = "idle"
    /\ \E context \in WalkContexts, limit \in 1..MaxLimit,
          start_time \in {NoValue, Some(1), Some(5)}, current_time \in Nows :
         LET pagination == [cursor |-> NoValue, limit |-> limit]
             filters == [start_time |-> start_time, end_time |-> NoValue,
                         mcp_tool_name |-> NoValue]
         IN  walk' = [pc |-> "paging", context |-> context, limit |-> limit,
                      filters |-> filters, existed |-> tool_call_logs,
                      responses |-> << get_tool_call_logs(tool_call_logs, context, pagination,
                                                          filters, current_time) >>]
    /\ UNCHANGED << gateway_vars, wrapper, tool_call_logs, route_call, cursor_call >>

\* The next page request: the same parameters with the next_cursor of the
\* last response, served at the time it arrives.
route_walk_next ==
    /\ walk.pc = "paging"
    /\ walk.responses[Len(walk.responses)].next_cursor # NoValue
    /\ \E current_time \in Nows :
         LET pagination == [cursor |-> walk.responses[Len(walk.responses)].next_cursor,
                            limit |-> walk.limit]
         IN  walk' = [walk EXCEPT !.responses =
                        Append(@, get_tool_call_logs(tool_call_logs, walk.context, pagination,
                                                     walk.filters, current_time))]
    /\ UNCHANGED << gateway_vars, wrapper, tool_call_logs, route_call, cursor_call >>

\* The walk is over when a response carries no next_cursor.
route_walk_end ==
    /\ walk.pc = "paging"
    /\ walk.responses[Len(walk.responses)].next_cursor = NoValue
    /\ walk' = IdleWalk
    /\ UNCHANGED << gateway_vars, wrapper, tool_call_logs, route_call, cursor_call >>

----------------------------------------------------------------------------
(* Specifications *)

tools_call(p) ==
    \/ tools_call_execute_tool(p)
    \/ tools_call_search_tools(p)
    \/ tools_call_unknown_tool(p)

step(p) ==
    \/ validate_input(p)
    \/ check_resources(p)
    \/ get_auth(p)
    \/ forward_read(p)
    \/ open_transport(p)
    \/ initialize(p)
    \/ call_tool_fresh(p)
    \/ call_tool(p)
    \/ reinitialize(p)
    \/ retry_call_tool(p)
    \/ record_session(p)
    \/ forward_return(p)
    \/ create_tool_call_log(p)
    \/ db_session_commit(p)
    \/ request_end(p)

\* The requests of the session arrive one after the other.
Next == \E p \in Procs : (Quiet /\ tools_call(p)) \/ step(p)

Spec == Init /\ [][Next]_vars

\* Every operation a request awaits returns or fails, so a request that can
\* take a step takes one.
SpecTerminates == Spec /\ \A p \in Procs : WF_vars(step(p))

\* The requests of the session are served concurrently; they are EXECUTE_TOOL
\* calls of a tool of each streamable-HTTP server, with well-formed
\* arguments.
ConcurrentArguments == { Args(JStr(n), JDict0, FALSE) : n \in {"S1__T1", "S3__T4"} }

tools_call_concurrent(p) == receive_execute_tool(p, ConcurrentArguments)

NextConcurrent == \E p \in Procs : tools_call_concurrent(p) \/ step(p)

\* The bundle binds every server and every tool is enabled.
InitConcurrent ==
    /\ Init
    /\ mcp_server_bundle = <<"c0", "c3", "c1", "c2", "c4">>
    /\ mcp_server_configurations["c1"].all_tools_enabled
    /\ mcp_server_configurations["c1"].enabled_tools = {}

SpecConcurrent == InitConcurrent /\ [][NextConcurrent]_vars

\* One call of handle_execute_tool through track_duration after the other.
InitDuration ==
    /\ GatewayUnused
    /\ wrapper = IdleWrapper
    /\ LogsAtStart

NextDuration == wrapper_enter \/ wrapper_await \/ wrapper_finally \/ wrapper_return

SpecDuration == InitDuration /\ [][NextDuration]_vars

\* Page walks over a table that does not change.
InitCrud ==
    /\ GatewayUnused
    /\ wrapper = IdleWrapper
    /\ tool_call_logs \in LogTables
    /\ walk = IdleWalk
    /\ route_call = IdleRouteCall
    /\ cursor_call = IdleCursorCall

NextCrud == walk_first \/ walk_next \/ walk_end

SpecCrud == InitCrud /\ [][NextCrud]_vars

\* Page walks with a search text.
NextSearch == walk_search \/ walk_next \/ walk_end

SpecSearch == InitCrud /\ [][NextSearch]_vars

\* Uses of MCPToolCallLogCursor.encode and decode.
InitCursor ==
    /\ GatewayUnused
    /\ wrapper = IdleWrapper
    /\ LogsAtStart

NextCursor == cursor_round_trip \/ cursor_encode_again \/ cursor_decode \/ cursor_return

SpecCursor == InitCursor /\ [][NextCursor]_vars

\* Requests to GET /tool-calls on a table that does not change.
InitLogs == InitCrud

\* Walks through the route over a table that grows.
InitWalk ==
    /\ GatewayUnused
    /\ wrapper = IdleWrapper
    /\ tool_call_logs \in TablesBeforeInserts
    /\ walk = IdleWalk
    /\ route_call = IdleRouteCall
    /\ cursor_call = IdleCursorCall

NextWalk == create_tool_call_log_row \/ route_walk_first \/ route_walk_next \/ route_walk_end

SpecWalk == InitWalk /\ [][NextWalk]_vars

NextLogs == list_tool_calls \/ list_tool_calls_done

SpecLogs == InitLogs /\ [][NextLogs]_vars

----------------------------------------------------------------------------
(* What the claims speak of *)

\* p serves an EXECUTE_TOOL call.
Dispatch(p) == frame[p].params_name = "EXECUTE_TOOL"

\* handle_execute_tool has returned for p and the request is not closed yet.
AtReturn(p) == Dispatch(p) /\ frame[p].pc \in {"log", "returned"}

\* The dispatch of f went through _forward_tool_call.
Forwarded(f) == f.exit \in {"Success", "McpError", "ForwardException"}

FirstStale(f) == f.first_attempt.kind = "mcperror" /\ is_session_terminated(f.first_attempt)

\* The response of f is the outcome o of a transport operation: the success
\* envelope of that result, or the error envelope of that protocol error.
ResponseIs(f, o) ==
    \/ /\ o.kind = "result"
       /\ f.response.kind = "success"
       /\ f.response.body.content = o.content
    \/ /\ o.kind = "mcperror"
       /\ f.response.kind = "error"
       /\ f.response.body.code = o.code
       /\ f.response.body.message = o.message
       /\ f.response.body.data = o.data

ResponseIsForwardException(f) ==
    /\ f.response.kind = "error"
    /\ f.response.body.code = JSONRPCErrorCode.INTERNAL_ERROR
    /\ f.response.body.message = "Unknown error forwarding tool call"

----------------------------------------------------------------------------
\* C1: every handle_tools_call for EXECUTE_TOOL runs to its return, returns
\* exactly one envelope (success or error, the one handle_execute_tool
\* computed) and has by then called the audit insert exactly once; before the
\* return nothing is returned, and the insert is never called twice.
C1_OneResponseOneAuditAttempt ==
    \A p \in Procs : Dispatch(p) =>
        LET f == frame[p]
        IN  /\ f.pc # "idle" => ENABLED step(p)
            /\ f.pc \notin {"log", "returned", "closed"} =>
                 f.response = NoResponse /\ f.returned = NoResponse /\ f.n_create = 0
            /\ f.pc = "log" =>
                 /\ f.response.kind \in {"success", "error"}
                 /\ f.exit # "none"
                 /\ f.returned = NoResponse
                 /\ f.n_create = 0
            /\ f.pc = "returned" =>
                 /\ f.returned.kind \in {"success", "error"}
                 /\ f.returned = f.response
                 /\ f.n_create = 1

\* A call ended by an exception of the forward has returned its envelope.
C1_Witness ==
    \E p \in Procs :
        /\ Dispatch(p) /\ frame[p].pc = "returned"
        /\ frame[p].exit = "ForwardException"
        /\ frame[p].returned.kind = "error"
        /\ frame[p].n_create = 1

\* C2: when the audit write failed, the request still ends with the response
\* handle_execute_tool computed and not with an exception.
C2_AuditFailureLeavesResponse ==
    \A p \in Procs :
        (Dispatch(p) /\ frame[p].pc = "closed" /\ frame[p].log_failure # "none") =>
            /\ frame[p].request = "responded"
            /\ frame[p].returned = frame[p].response

C5_Original ==
    \A p \in Procs :
        (AtReturn(p) /\ Forwarded(frame[p]) /\ frame[p].prev.first_call /\ ~frame[p].stale) =>
            LET f == frame[p]
            IN  /\ f.prev.n_initialize + f.n_initialize = 1
                /\ f.existing_mcp_session_id = f.prev.after
                /\ external_mcp_sessions[mcp_server_of(f)] = f.prev.after

\* C5 amended: when the server is reached over streamable HTTP and the first
\* dispatch recorded a token, the first dispatch initialized once, the second
\* reads that token, hands it to the transport, issues no initialize and
\* writes no token, and the token is still the one held afterwards. When no
\* token was recorded (an SSE server, or a transport that reported no session
\* id), the second dispatch reads no token and initializes again.
C5_SessionReuse ==
    \A p \in Procs :
        (AtReturn(p) /\ Forwarded(frame[p]) /\ frame[p].prev.first_call /\ ~frame[p].stale) =>
            LET f == frame[p]
                s == mcp_server_of(f)
            IN  IF transport_type(s) = "STREAMABLE_HTTP" /\ f.prev.after # "none"
                THEN /\ f.prev.n_initialize = 1
                     /\ f.n_initialize = 0
                     /\ f.existing_mcp_session_id = f.prev.after
                     /\ f.n_call_tool >= 1 => f.session_id = f.prev.after
                     /\ ~f.recorded
                     /\ external_mcp_sessions[s] = f.prev.after
                ELSE /\ f.prev.after = "none"
                     /\ f.existing_mcp_session_id = "none"
                     /\ external_mcp_sessions[s] = "none" \/ f.recorded
                     /\ \/ f.n_initialize = 1
                        \/ f.raised /\ f.n_initialize = 0 /\ f.n_call_tool = 0

\* The second dispatch succeeded on the token the first one recorded.
C5_Witness ==
    \E p \in Procs :
        /\ AtReturn(p) /\ frame[p].exit = "Success"
        /\ frame[p].prev.first_call /\ ~frame[p].stale
        /\ frame[p].prev.after \in Tokens
        /\ frame[p].existing_mcp_session_id = frame[p].prev.after
        /\ frame[p].n_initialize = 0 /\ frame[p].n_call_tool = 1

\* C6: two dispatches of one session to one streamable-HTTP server never both
\* initialize on an absent token, and a dispatch that writes the token writes
\* over the value it read (no token written in between is lost).
C6_DispatchesSerialized ==
    /\ \A p, q \in Procs :
         (/\ p # q /\ Dispatch(p) /\ Dispatch(q)
          /\ frame[p].mcp_tool # NoTool /\ frame[q].mcp_tool # NoTool
          /\ frame[p].opened /\ frame[q].opened
          /\ mcp_server_of(frame[p]) = mcp_server_of(frame[q])
          /\ transport_type(mcp_server_of(frame[p])) = "STREAMABLE_HTTP")
         => ~(/\ frame[p].existing_mcp_session_id = "none" /\ frame[p].n_initialize >= 1
              /\ frame[q].existing_mcp_session_id = "none" /\ frame[q].n_initialize >= 1)
    /\ \A p \in Procs :
         (Dispatch(p) /\ frame[p].recorded) =>
             frame[p].before = frame[p].existing_mcp_session_id

\* A step writes the token of server s for the dispatch p: _call_tool has
\* returned an outcome of one of the kinds, the transport reports a session
\* id, it differs from the token held, it becomes the token of s, and the
\* tokens of the other servers stay.
TokenWrite(p, s, kinds) ==
    /\ Dispatch(p) /\ frame[p].pc = "record"
    /\ mcp_server_of(frame[p]) = s
    /\ transport_type(s) = "STREAMABLE_HTTP"
    /\ frame[p].tool_call_result.kind \in kinds
    /\ frame[p].session_id # "none"
    /\ frame[p].session_id # external_mcp_sessions[s]
    /\ external_mcp_sessions'[s] = frame[p].session_id
    /\ \A r \in Servers \ {s} : external_mcp_sessions'[r] = external_mcp_sessions[r]

C8_RejectedBeforeTransport ==
    \A p \in Procs :
        (Dispatch(p) /\ frame[p].exit \in {"InvalidParams", "ToolNotFound", "ServiceNotConfigured",
                                           "ToolNotEnabled", "CredentialException"}) =>
            /\ ~frame[p].opened
            /\ frame[p].session_id = "none"
            /\ frame[p].n_initialize = 0
            /\ frame[p].n_call_tool = 0
            /\ ~frame[p].recorded
            /\ frame[p].response.kind = "error"

\* A credential failure in a session that holds a token.
C8_Witness ==
    \E p \in Procs :
        /\ Dispatch(p) /\ frame[p].pc = "log"
        /\ frame[p].exit = "CredentialException"
        /\ ~frame[p].opened
        /\ \E s \in Servers : external_mcp_sessions[s] \in Tokens

\* C9: once the configuration of the tool's server is found, the dispatch is
\* rejected as not enabled exactly when the configuration does not enable all
\* tools and the tool's id is not in its enabled_tools; the rejection is the
\* UNAUTHORIZED error, and otherwise the dispatch goes on to the credentials.
C9_EnablementPolicy ==
    \A p \in Procs :
        (Dispatch(p) /\ frame[p].mcp_server_configuration # NoConfiguration) =>
            LET f == frame[p]
                denied == /\ f.mcp_server_configuration.all_tools_enabled = FALSE
                          /\ f.mcp_tool.id \notin f.mcp_server_configuration.enabled_tools
            IN  /\ (f.exit = "ToolNotEnabled") <=> denied
                /\ denied =>
                     /\ f.pc \in {"log", "returned"}
                     /\ f.response.kind = "error"
                     /\ f.response.body.code = JSONRPCErrorCode.UNAUTHORIZED
                /\ ~denied =>
                     /\ f.pc \notin {"validate", "resources"}
                     /\ f.exit \in {"none", "CredentialException", "Success", "McpError",
                                    "ForwardException"}

\* A tool outside a non-empty enabled_tools is rejected.
C9_Witness ==
    \E p \in Procs :
        /\ Dispatch(p) /\ frame[p].exit = "ToolNotEnabled"
        /\ frame[p].mcp_server_configuration # NoConfiguration
        /\ frame[p].mcp_server_configuration.enabled_tools = {"t1"}
        /\ frame[p].mcp_tool.id = "t2"

\* C10: the audit entry handed to the insert has status SUCCESS exactly when
\* the response is the success envelope and ERROR exactly when it is the error
\* envelope; its result is the returned result on success, and on error the
\* error's code and message, with the data exactly when the error has data.
C10_AuditEntryMirrorsResponse ==
    \A p \in Procs : AtReturn(p) =>
        LET log == frame[p].tool_call_log_data
            r == frame[p].response
        IN  /\ r.kind \in {"success", "error"}
            /\ (log.status = "SUCCESS") <=> (r.kind = "success")
            /\ (log.status = "ERROR") <=> (r.kind = "error")
            /\ r.kind = "success" => log.result = r.body
            /\ r.kind = "error" =>
                 /\ DOMAIN log.result \subseteq {"code", "message", "data"}
                 /\ log.result.code = r.body.code
                 /\ log.result.message = r.body.message
                 /\ ("data" \in DOMAIN log.result) <=> (r.body.data # "none")
                 /\ r.body.data # "none" => log.result.data = r.body.data

\* An error that carries data was audited with its data.
C10_Witness ==
    \E p \in Procs :
        /\ AtReturn(p) /\ frame[p].pc = "returned"
        /\ frame[p].response.kind = "error"
        /\ frame[p].response.body.data # "none"
        /\ frame[p].tool_call_log_data.status = "ERROR"
        /\ "data" \in DOMAIN frame[p].tool_call_log_data.result

\* C11: once the arguments of the call have passed validation, the audit
\* entry names the requested tool and holds the serialized argument map, up to
\* the return and on every exit; a call rejected as ToolNotFound,
\* ServiceNotConfigured or ToolNotEnabled returns the error envelope and hands
\* exactly one entry to the insert, with status ERROR and the tool's name.
C11_RejectedCallStillNamed ==
    \A p \in Procs :
        (/\ Dispatch(p)
         /\ frame[p].pc \notin {"idle", "validate", "closed"}
         /\ ExecuteToolInputSchema_valid(frame[p].arguments)) =>
            LET f == frame[p]
                log == f.tool_call_log_data
            IN  /\ log.mcp_tool_name = f.arguments.tool_name.v
                /\ log.arguments = f.arguments.tool_arguments.v
                /\ f.exit \in {"ToolNotFound", "ServiceNotConfigured", "ToolNotEnabled"} =>
                     /\ log.status = "ERROR"
                     /\ f.response.kind = "error"
                     /\ f.n_create = IF f.pc = "returned" THEN 1 ELSE 0

\* A call of a tool that is not enabled was rejected and its entry, naming the
\* tool and holding its arguments, was inserted.
C11_Witness ==
    \E p \in Procs :
        /\ Dispatch(p) /\ frame[p].pc = "returned"
        /\ frame[p].exit = "ToolNotEnabled"
        /\ frame[p].tool_call_log_data.mcp_tool_name = "S1__T2"
        /\ frame[p].tool_call_log_data.arguments = JDict1.v
        /\ frame[p].tool_call_log_data.status = "ERROR"
        /\ frame[p].log_failure = "none"
        /\ mcp_tool_call_logs >= 1

\* The protocol error the target server answered last in the dispatch of f:
\* that of the last call_tool, or of the initialize if no call_tool followed it.
LastProtocolError(f) ==
    IF f.last_attempt.kind = "mcperror" /\ f.last_initialize.kind # "mcperror"
    THEN f.last_attempt
    ELSE f.last_initialize

C14_InternalErrorIsConstant ==
    \A p \in Procs : (AtReturn(p) /\ frame[p].exception # "none") =>
        LET f == frame[p]
            message == IF f.exit = "ForwardException"
                       THEN "Unknown error forwarding tool call"
                       ELSE "Internal error"
        IN  /\ f.exit \in {"ResourceException", "CredentialException", "ForwardException"}
            /\ f.response.kind = "error"
            /\ f.response.body =
                 [code |-> JSONRPCErrorCode.INTERNAL_ERROR, message |-> message, data |-> "none"]
            /\ f.tool_call_log_data.result =
                 [code |-> JSONRPCErrorCode.INTERNAL_ERROR, message |-> message]
            /\ f.tool_call_log_data.status = "ERROR"

\* A credential failure whose exception names a secret was answered with the
\* fixed message.
C14_Witness ==
    \E p \in Procs :
        /\ AtReturn(p) /\ frame[p].exit = "CredentialException"
        /\ frame[p].exception = "cannot refresh token s3cr3t"
        /\ frame[p].response.body.message = "Internal error"

RECURSIVE concatenated(_)
concatenated(pages) ==
    IF pages = <<>> THEN <<>> ELSE pages[1] \o concatenated(Tail(pages))

\* The text occurs in the name, the case of the letters apart.
contains_ignoring_case(name, text) ==
    \E i \in 0..(Len(name) - Len(text)) :
        \A j \in 1..Len(text) : lower(name[i + j]) = lower(text[j])

\* The rows of the table a walk's scope and filters select.
matching(w) ==
    { r \in tool_call_logs :
        /\ IF w.scope = "organization" THEN r.organization_id = w.scope_id
           ELSE r.user_id = w.scope_id
        /\ w.start_time <= r.started_at /\ r.started_at <= w.end_time
        /\ w.mcp_tool_name # NoValue =>
             contains_ignoring_case(r.mcp_tool_name, w.mcp_tool_name.some) }

\* A walk from the first page has come to its end.
WalkComplete ==
    /\ walk.pc = "walking"
    /\ walk.next_cursor = NoValue
    /\ walk.request.first_cursor = NoValue

\* C15: a walk with limit k from the first page, followed until no cursor
\* comes back, returns every matching row exactly once, the pages put
\* together being in (started_at DESC, id DESC) order, also with equal
\* started_at.
C15_WalkReturnsAllOnceInOrder ==
    WalkComplete =>
        LET all == concatenated(walk.pages)
        IN  /\ { all[i] : i \in 1..Len(all) } = matching(walk.request)
            /\ Len(all) = Cardinality(matching(walk.request))
            /\ \A i \in 1..Len(all) - 1 : desc_started_at_id(all[i], all[i + 1])

\* A walk with limit 1 over three matching rows that all share started_at
\* has returned them on three pages.
C15_Witness ==
    /\ WalkComplete
    /\ walk.request.limit = 1
    /\ Len(walk.pages) >= 3
    /\ Cardinality(matching(walk.request)) = 3
    /\ \A a, b \in matching(walk.request) : a.started_at = b.started_at

\* The row belongs to the scope a walk asks for.
InScope(r, w) ==
    IF w.scope = "organization" THEN r.organization_id = w.scope_id
    ELSE r.user_id = w.scope_id

\* C16: every row on every page of a walk through get_by_org(org) has
\* organization_id = org, and through get_by_user(user) has user_id = user,
\* whatever the cursor, the limit, the window and the tool-name filter.
C16_PagesWithinScope ==
    walk.pc = "walking" =>
        \A p \in 1..Len(walk.pages) : \A i \in 1..Len(walk.pages[p]) :
            InScope(walk.pages[p][i], walk.request)

\* A walk for user U1 has returned rows on two pages while the window also
\* holds a row of user U2 in the same organization as a returned row.
C16_Witness ==
    /\ walk.pc = "walking"
    /\ walk.request.scope = "user"
    /\ walk.request.scope_id = "U1"
    /\ Len(walk.pages) >= 2
    /\ walk.pages[2] # <<>>
    /\ \E r \in tool_call_logs :
         /\ r.user_id = "U2"
         /\ r.organization_id = walk.pages[1][1].organization_id
         /\ walk.request.start_time <= r.started_at
         /\ r.started_at <= walk.request.end_time

\* C20: a query with bounds start_time and end_time returns a row of the
\* scope exactly when start_time <= started_at <= end_time; a row whose
\* started_at equals one of the bounds is returned.
C20_WindowInclusive ==
    (WalkComplete /\ walk.request.mcp_tool_name = NoValue) =>
        \A r \in tool_call_logs :
            InScope(r, walk.request) =>
                ( (\E i \in 1..Len(concatenated(walk.pages)) : concatenated(walk.pages)[i] = r)
                  <=> (walk.request.start_time <= r.started_at
                       /\ r.started_at <= walk.request.end_time) )

\* A query from 5 to 11 has returned a row that started at 5 and one that
\* started at 11, and has left out a row of the scope that started at 2.
C20_Witness ==
    /\ WalkComplete
    /\ walk.request.mcp_tool_name = NoValue
    /\ walk.request.start_time = 5
    /\ walk.request.end_time = 11
    /\ \E i, j \in 1..Len(concatenated(walk.pages)) :
         /\ concatenated(walk.pages)[i].started_at = 5
         /\ concatenated(walk.pages)[j].started_at = 11
    /\ \E r \in tool_call_logs : InScope(r, walk.request) /\ r.started_at = 2

\* The route has answered a request with a page.
Listed == route_call.pc = "responded" /\ route_call.response.status_code = 200

\* C17: every entry returned to a caller acting in organization O with a role
\* other than ADMIN has organization_id = O.
C17_MemberSeesOnlyActingOrganization ==
    (Listed /\ route_call.context.act_as.role # ADMIN) =>
        \A i \in 1..Len(route_call.response.data) :
            route_call.response.data[i].organization_id
                = route_call.context.act_as.organization_id

\* C18: the route queries with start = max(given start_time, now - 7 days), or
\* now - 7 days when none is given, and end = min(given end_time, now), or
\* now when none is given; no returned entry has started_at earlier than
\* now - 7 days or later than now.
C18_WindowClamped ==
    Listed =>
        LET now == route_call.current_time
            given_start == route_call.filters.start_time
            given_end == route_call.filters.end_time
            oldest == now - RetentionDays
        IN  /\ route_call.response.start_time =
                 Some(IF given_start = NoValue THEN oldest
                      ELSE IF given_start.some > oldest THEN given_start.some ELSE oldest)
            /\ route_call.response.end_time =
                 Some(IF given_end = NoValue THEN now
                      ELSE IF given_end.some < now THEN given_end.some ELSE now)
            /\ \A i \in 1..Len(route_call.response.data) :
                 /\ route_call.response.data[i].started_at >= oldest
                 /\ route_call.response.data[i].started_at <= now

\* A request asking from long ago into the future was answered with rows,
\* while the scope holds a row older than seven days and a row of the future.
C18_Witness ==
    /\ Listed
    /\ route_call.context.act_as.role = ADMIN
    /\ route_call.pagination.cursor = NoValue
    /\ route_call.filters = [start_time |-> Some(1), end_time |-> Some(12),
                             mcp_tool_name |-> NoValue]
    /\ route_call.response.data # <<>>
    /\ \E a, b \in tool_call_logs :
         /\ a.organization_id = "O1" /\ b.organization_id = "O1"
         /\ a.started_at < route_call.current_time - RetentionDays
         /\ b.started_at > route_call.current_time

\* The window of the last request after clamping is empty.
ClampedRangeEmpty ==
    /\ route_call.pc = "responded"
    /\ LET now == route_call.current_time
           s == route_call.filters.start_time
           e == route_call.filters.end_time
           start == IF s = NoValue \/ s.some < now - RetentionDays
                    THEN now - RetentionDays ELSE s.some
           end == IF e = NoValue \/ e.some > now THEN now ELSE e.some
       IN  end < start

\* The empty page: no error, no entry, no cursor, and the store not asked.
EmptyPage ==
    /\ route_call.response.status_code = 200
    /\ route_call.response.data = <<>>
    /\ route_call.response.next_cursor = NoValue
    /\ ~route_call.response.queried

\* C19 as stated: when the clamped end_time is earlier than the clamped
\* start_time, the route issues no query and returns an empty page with no
\* next_cursor and no error, whatever entries exist and whatever cursor was
\* passed.
C19_Original == ClampedRangeEmpty => EmptyPage

\* C19 amended: when the clamped end_time is earlier than the clamped
\* start_time and the request carries no cursor or a cursor that decodes, the
\* route issues no query and returns an empty page with no next_cursor and no
\* error, whatever entries exist; a cursor that does not decode is answered
\* 400 "Invalid cursor" before the window is looked at.
C19_EmptyRangeEmptyPage ==
    ClampedRangeEmpty =>
        IF route_call.pagination.cursor = Some(InvalidCursor)
        THEN /\ route_call.response.status_code = 400
             /\ route_call.response.detail = "Invalid cursor"
             /\ ~route_call.response.queried
        ELSE EmptyPage

\* A request with a cursor that decodes and an end before the start was
\* answered with the empty page although rows of the scope exist.
C19_Witness ==
    /\ ClampedRangeEmpty
    /\ EmptyPage
    /\ route_call.pagination.cursor = Some(encode(utc(5), 2))
    /\ route_call.filters.start_time = Some(5)
    /\ route_call.filters.end_time = Some(1)
    /\ \E r \in tool_call_logs : r.user_id = route_call.context.user_id

Malformed(cursor) ==
    \/ cursor.foreign
    \/ ~cursor.padded
    \/ cursor.json = NoValue
    \/ cursor.json.some.started_at = NoValue
    \/ cursor.json.some.id = NoValue
    \/ cursor.json.some.started_at.some.clock = NoValue
    \/ cursor.json.some.id.some.hex = NoValue

\* C22: a cursor with an invalid base64 alphabet, a payload missing the id
\* field, an unparsable timestamp or an unparsable id is refused: the list
\* route answers it 400 "Invalid cursor" and runs no query.
C22_MalformedCursorRefused ==
    ( /\ route_call.pc = "responded"
      /\ route_call.pagination.cursor # NoValue
      /\ Malformed(route_call.pagination.cursor.some) ) =>
        /\ route_call.response.status_code = 400
        /\ route_call.response.detail = "Invalid cursor"
        /\ ~route_call.response.queried

\* The positions of the bundle's list that hold a stored configuration of
\* the server.
Matching(mcp_server_id) ==
    { i \in DOMAIN mcp_server_bundle :
        /\ mcp_server_configurations[mcp_server_bundle[i]] # NoConfiguration
        /\ mcp_server_configurations[mcp_server_bundle[i]].mcp_server_id = mcp_server_id }

\* C23: a bundle with more than one matching configuration for the tool's
\* service is treated as ambiguous: the dispatch does not go on with one of
\* them.
C23_AmbiguousNotResolved ==
    \A p \in Procs :
        (frame[p].mcp_tool # NoTool
         /\ Cardinality(Matching(frame[p].mcp_tool.mcp_server)) > 1) =>
            frame[p].mcp_server_configuration = NoConfiguration

\* C28: the configuration used for a call is the first of the bundle's list,
\* in list order, that is stored and belongs to the tool's service; ids
\* without a stored configuration before it are skipped, and no id after it
\* is looked up.
C28_FirstMatchUsed ==
    \A p \in Procs :
        frame[p].mcp_server_configuration # NoConfiguration =>
            LET first == CHOOSE i \in Matching(frame[p].mcp_tool.mcp_server) :
                             \A j \in Matching(frame[p].mcp_tool.mcp_server) : i <= j
            IN  /\ Matching(frame[p].mcp_tool.mcp_server) # {}
                /\ frame[p].mcp_server_configuration
                     = mcp_server_configurations[mcp_server_bundle[first]]
                /\ frame[p].consulted = SubSeq(mcp_server_bundle, 1, first)

\* A call went on to the target service with c1, after the scan skipped c0,
\* which has no stored configuration, and while c4, later in the list, is a
\* configuration of the same service.
C28_Witness ==
    \E p \in Procs :
        /\ frame[p].pc = "log"
        /\ frame[p].exit = "Success"
        /\ frame[p].mcp_server_configuration.id = "c1"
        /\ frame[p].consulted = <<"c0", "c3", "c1">>
        /\ mcp_server_configurations["c0"] = NoConfiguration
        /\ 5 \in Matching("S1")

\* The call of p was rejected by the validation of its arguments.
RejectedInput(p) ==
    /\ Dispatch(p)
    /\ frame[p].pc = "log"
    /\ ~ExecuteToolInputSchema_valid(frame[p].arguments)

\* The rejection of p: the InvalidParams envelope, no resolution step and no
\* transport operation, and an entry with status ERROR.
InvalidParamsOnly(p) ==
    /\ frame[p].exit = "InvalidParams"
    /\ frame[p].response.kind = "error"
    /\ frame[p].response.body.code = JSONRPCErrorCode.INVALID_METHOD_PARAMS
    /\ ~frame[p].looked_up
    /\ frame[p].consulted = << >>
    /\ frame[p].mcp_tool = NoTool
    /\ frame[p].mcp_server_configuration = NoConfiguration
    /\ ~frame[p].opened
    /\ frame[p].n_initialize = 0
    /\ frame[p].n_call_tool = 0
    /\ frame[p].tool_call_log_data.status = "ERROR"

\* The field of the entry holds the raw value: a string as it is, anything
\* else as its JSON text.
Recovered(raw, field) ==
    field = IF raw.t = "str" THEN raw.v ELSE json_dumps(raw)

\* C24: a call whose arguments lack a string tool_name, lack an object
\* tool_arguments or carry an additional field ends with the InvalidParams
\* envelope without any resolution step; its entry has status ERROR and
\* carries the tool_name (serialized when it is no string) and the
\* tool_arguments of the raw input when they are present, that is, when the
\* key holds a value other than null; otherwise the field stays unset.
C24_RejectedInputRecovered ==
    \A p \in Procs :
        RejectedInput(p) =>
            /\ InvalidParamsOnly(p)
            /\ IF frame[p].arguments.tool_name.t \in {"absent", "null"}
               THEN frame[p].tool_call_log_data.mcp_tool_name = EmptyLog.mcp_tool_name
               ELSE Recovered(frame[p].arguments.tool_name,
                              frame[p].tool_call_log_data.mcp_tool_name)
            /\ IF frame[p].arguments.tool_arguments.t \in {"absent", "null"}
               THEN frame[p].tool_call_log_data.arguments = EmptyLog.arguments
               ELSE frame[p].tool_call_log_data.arguments
                      = json_dumps(frame[p].arguments.tool_arguments)

\* A call whose tool_name is the number 7 was rejected; its entry names the
\* tool "7" and holds the arguments "{}".
C24_Witness ==
    \E p \in Procs :
        /\ RejectedInput(p)
        /\ frame[p].arguments = Args(JInt7, JDict0, FALSE)
        /\ frame[p].exit = "InvalidParams"
        /\ frame[p].tool_call_log_data.mcp_tool_name = "7"
        /\ frame[p].tool_call_log_data.arguments = "{}"
        /\ frame[p].tool_call_log_data.status = "ERROR"

\* C25: with a tool-name filter, an entry of the scope and window is returned
\* exactly when its mcp_tool_name holds the search text as a literal
\* substring, the case of letters apart; '%', '_' and the backslash of the
\* search text match only themselves.
C25_SearchTextLiteral ==
    (WalkComplete /\ walk.request.mcp_tool_name # NoValue) =>
        \A r \in tool_call_logs :
            (InScope(r, walk.request)
             /\ walk.request.start_time <= r.started_at
             /\ r.started_at <= walk.request.end_time) =>
                ( (\E i \in 1..Len(concatenated(walk.pages)) : concatenated(walk.pages)[i] = r)
                  <=> contains_ignoring_case(r.mcp_tool_name, walk.request.mcp_tool_name.some) )

\* A search for "_" returned the entry named "se_" and neither the entry
\* named "Get" nor the entry named "5%\" of the same scope and window.
C25_Witness ==
    /\ WalkComplete
    /\ walk.request.mcp_tool_name = Some(<<"_">>)
    /\ walk.request.scope_id = "O1"
    /\ concatenated(walk.pages) # << >>
    /\ \A i \in 1..Len(concatenated(walk.pages)) :
         concatenated(walk.pages)[i].mcp_tool_name = <<"s", "e", "_">>
    /\ \E r \in tool_call_logs : r.organization_id = "O1" /\ r.mcp_tool_name = <<"G", "e", "t">>
    /\ \E r \in tool_call_logs : r.organization_id = "O1" /\ r.mcp_tool_name = <<"5", "%", "\\">>

\* A step of request p issues a call_tool, or an initialize.
IssuesCallTool(p) == frame'[p].n_call_tool = frame[p].n_call_tool + 1
IssuesInitialize(p) == frame'[p].n_initialize = frame[p].n_initialize + 1

\* The last initialize of the dispatch was answered with its result.
InitializeCompleted(f) == f.n_initialize = 1 /\ f.last_initialize = InitializeResult

\* C26: within one dispatch, a call that found no held token issues its
\* first call_tool only after its initialize has completed, and issues no
\* second initialize; a call that found a held token issues its first
\* call_tool before any initialize, issues initialize only after that single
\* call_tool has failed with the stale-session signature, and issues the
\* retry only after that re-initialize has completed.
C26_InitializeAndRetryInOrder ==
    [][\A p \in Procs :
         /\ IssuesCallTool(p) =>
               IF frame[p].existing_mcp_session_id = "none"
               THEN frame[p].n_call_tool = 0 /\ InitializeCompleted(frame[p])
               ELSE \/ frame[p].n_call_tool = 0 /\ frame[p].n_initialize = 0
                    \/ /\ frame[p].n_call_tool = 1
                       /\ InitializeCompleted(frame[p])
         /\ IssuesInitialize(p) =>
               /\ frame[p].n_initialize = 0
               /\ IF frame[p].existing_mcp_session_id = "none"
                  THEN frame[p].n_call_tool = 0
                  ELSE /\ frame[p].n_call_tool = 1
                       /\ frame[p].last_attempt.kind = "mcperror"
                       /\ is_session_terminated(frame[p].last_attempt)]_vars

\* A call on a token that an earlier call's initialize had obtained has made
\* its call_tool, met the stale-session error, re-initialized and retried.
C26_Witness ==
    \E p \in Procs :
        /\ frame[p].existing_mcp_session_id # "none"
        /\ frame[p].prev.seen
        /\ frame[p].n_call_tool = 2
        /\ InitializeCompleted(frame[p])
        /\ frame[p].first_attempt = SessionTerminated

\* The resolver of request p has run and the database answered its reads.
Resolved(p) == frame[p].looked_up /\ frame[p].exit # "ResourceException"

\* The tool the arguments of f name, NoTool when the name is unknown.
NamedTool(f) == get_mcp_tool_by_name(f.arguments.tool_name.v)

\* C27: the resolver checks tool lookup, configuration scan and enablement
\* in that order and returns the error of the first check that fails, the
\* database answering: an unknown tool name gives ToolNotFound
\* (INVALID_METHOD_PARAMS) with no configuration looked up, whatever the
\* bundle holds; a known tool with no matching configuration in the bundle
\* gives ServiceNotConfigured (INVALID_REQUEST) after the whole list was
\* looked up, whatever the stored configurations enable; and ToolNotEnabled
\* (UNAUTHORIZED) is given only for a known tool with a matching
\* configuration.
C27_ResolverOrder ==
    \A p \in Procs :
        Resolved(p) =>
            LET f == frame[p]
                known == NamedTool(f) # NoTool
                configured == Matching(NamedTool(f).mcp_server) # {}
            IN  /\ ~known =>
                     /\ f.exit = "ToolNotFound"
                     /\ f.response.kind = "error"
                     /\ f.response.body.code = JSONRPCErrorCode.INVALID_METHOD_PARAMS
                     /\ f.consulted = << >>
                /\ (known /\ ~configured) =>
                     /\ f.exit = "ServiceNotConfigured"
                     /\ f.response.kind = "error"
                     /\ f.response.body.code = JSONRPCErrorCode.INVALID_REQUEST
                     /\ f.consulted = mcp_server_bundle
                /\ f.exit = "ToolNotEnabled" =>
                     /\ known /\ configured
                     /\ f.response.body.code = JSONRPCErrorCode.UNAUTHORIZED
                /\ (known /\ configured) =>
                     f.exit \notin {"ToolNotFound", "ServiceNotConfigured"}

\* An unknown tool was refused as ToolNotFound in a session whose bundle
\* holds five configuration ids, and none of them was looked up.
C27_Witness ==
    \E p \in Procs :
        /\ Resolved(p)
        /\ frame[p].arguments.tool_name.v = "S9__TX"
        /\ frame[p].exit = "ToolNotFound"
        /\ Len(mcp_server_bundle) = 5
        /\ frame[p].consulted = << >>

\* An initialize of the dispatch of f was answered with a protocol error.
InitializeFailed(f) == f.n_initialize >= 1 /\ f.last_initialize.kind = "mcperror"

AfterCursor(w) ==
    { r \in matching(w.request) :
        w.cursor # NoValue =>
            \/ r.started_at < w.cursor.some.started_at.timestamp
            \/ /\ r.started_at = w.cursor.some.started_at.timestamp
               /\ r.id < w.cursor.some.id }

\* C30: a page holds at most limit entries; a next cursor comes back exactly
\* when more than limit entries match after the cursor the request carried,
\* and it is then the encoding of the started_at and the id of the last
\* entry of the page; a page fetched with a returned next cursor, the data
\* unchanged, is not empty.
C30_NextCursorExactlyWhenMore ==
    walk.pc = "walking" =>
        LET page == walk.pages[Len(walk.pages)]
            last == page[Len(page)]
        IN  /\ Len(page) <= walk.request.limit
            /\ Len(page) = IF Cardinality(AfterCursor(walk)) > walk.request.limit
                            THEN walk.request.limit
                            ELSE Cardinality(AfterCursor(walk))
            /\ (walk.next_cursor # NoValue)
                  <=> (Cardinality(AfterCursor(walk)) > walk.request.limit)
            /\ walk.next_cursor # NoValue =>
                  /\ page # << >>
                  /\ decode(encode(utc(last.started_at), last.id)).raised = "none"
                  /\ walk.next_cursor.some.started_at
                       = decode(encode(utc(last.started_at), last.id)).started_at
                  /\ walk.next_cursor.some.started_at.timestamp = last.started_at
                  /\ walk.next_cursor.some.id = last.id
            /\ \A i \in 2..Len(walk.pages) : walk.pages[i] # << >>

\* A walk of limit 1 over two matching entries got a first page with a
\* cursor at its entry, and is on its second page, which holds the one entry
\* after the cursor, exactly limit of them, and came without a next cursor.
C30_Witness ==
    /\ walk.pc = "walking"
    /\ walk.request.limit = 1
    /\ walk.request.first_cursor = NoValue
    /\ Len(walk.pages) = 2
    /\ walk.cursor # NoValue
    /\ walk.cursor.some.id = walk.pages[1][1].id
    /\ Cardinality(AfterCursor(walk)) = 1
    /\ Len(walk.pages[2]) = 1
    /\ walk.next_cursor = NoValue

\* C31: every entry of a page requested with the cursor (t, i) has started_at
\* less than t, or started_at equal to t and id less than i; the entry a
\* returned cursor was built from is not on the page fetched with it; and
\* the entries of every page are in strictly decreasing (started_at, id)
\* order.
C31_PageStrictlyAfterCursor ==
    walk.pc = "walking" =>
        LET n == Len(walk.pages)
            page == walk.pages[n]
        IN  /\ walk.cursor # NoValue =>
                  \A k \in 1..Len(page) :
                      \/ page[k].started_at < walk.cursor.some.started_at.timestamp
                      \/ /\ page[k].started_at = walk.cursor.some.started_at.timestamp
                         /\ page[k].id < walk.cursor.some.id
            /\ n >= 2 =>
                  LET before == walk.pages[n - 1]
                  IN  /\ before # << >>
                      /\ walk.cursor.some.id = before[Len(before)].id
                      /\ \A k \in 1..Len(page) : page[k] # before[Len(before)]
            /\ \A q \in 1..n : \A k \in 1..(Len(walk.pages[q]) - 1) :
                  desc_started_at_id(walk.pages[q][k], walk.pages[q][k + 1])

\* The second page of a walk holds an entry with the started_at of the
\* entry its cursor was built from: the id alone places it after the cursor.
C31_Witness ==
    /\ walk.pc = "walking"
    /\ Len(walk.pages) = 2
    /\ walk.cursor # NoValue
    /\ walk.pages[2] # << >>
    /\ walk.cursor.some.id = walk.pages[1][Len(walk.pages[1])].id
    /\ walk.pages[2][1].started_at = walk.cursor.some.started_at.timestamp
    /\ walk.pages[2][1].id < walk.cursor.some.id

\* The rows the last list request selects when the one scope filter of the
\* acting role is applied: the acting organization for ADMIN, the caller's
\* user id otherwise; then the clamped window, the name filter and the
\* position of the cursor.
SelectedByOneScope ==
    LET c == route_call
        at == IF c.pagination.cursor = NoValue THEN NoValue
              ELSE Some(decode(c.pagination.cursor.some))
    IN  { r \in tool_call_logs :
            /\ IF c.context.act_as.role = ADMIN
               THEN r.organization_id = c.context.act_as.organization_id
               ELSE r.user_id = c.context.user_id
            /\ c.response.start_time.some <= r.started_at
            /\ r.started_at <= c.response.end_time.some
            /\ c.filters.mcp_tool_name # NoValue =>
                  contains_ignoring_case(r.mcp_tool_name, c.filters.mcp_tool_name.some)
            /\ at # NoValue =>
                  \/ r.started_at < at.some.started_at.timestamp
                  \/ r.started_at = at.some.started_at.timestamp /\ r.id < at.some.id }

\* C32: a list request that reaches the store is answered from the rows that
\* one scope filter selects, the organization filter with the acting
\* organization for the role ADMIN and the user filter with the caller's own
\* user id for any other role, and from no other rows: the page is the first
\* limit of them, so no second scope filter has removed a row and no row
\* outside the one scope is returned.
C32_ExactlyOneScopeFilter ==
    (Listed /\ route_call.response.queried) =>
        LET data == route_call.response.data
            rows == { data[i] : i \in 1..Len(data) }
            limit == route_call.pagination.limit
        IN  /\ rows \subseteq SelectedByOneScope
            /\ Cardinality(rows) = Len(data)
            /\ Len(data) = IF Cardinality(SelectedByOneScope) > limit THEN limit
                            ELSE Cardinality(SelectedByOneScope)
            /\ \A r \in SelectedByOneScope \ rows : \A d \in rows :
                  desc_started_at_id(d, r)

\* A member acting in organization O1 was answered with an own entry of
\* organization O2 and without an entry of another user of O1 that lies in
\* the window and is newer than a returned entry.
C32_Witness ==
    /\ Listed /\ route_call.response.queried
    /\ route_call.context = [user_id |-> "U1",
                             act_as |-> [organization_id |-> "O1", role |-> MEMBER]]
    /\ \E i \in 1..Len(route_call.response.data) :
         /\ route_call.response.data[i].organization_id = "O2"
         /\ route_call.response.data[i].user_id = "U1"
         /\ \E r \in tool_call_logs :
              /\ r.organization_id = "O1" /\ r.user_id = "U2"
              /\ r.started_at <= route_call.response.end_time.some
              /\ r.started_at > route_call.response.data[i].started_at

\* C33: every call_tool a dispatch issues, the first attempt and the retry
\* alike, carries the canonical name of the tool that was looked up, which
\* differs from the name the caller gave, and the tool_arguments of the
\* validated input as they came; the audit entry carries the name the caller
\* gave.
C33_CanonicalNameForwarded ==
    \A p \in Procs :
        (Dispatch(p) /\ frame[p].n_call_tool >= 1) =>
            LET f == frame[p]
                tool == get_mcp_tool_by_name(f.arguments.tool_name.v)
            IN  /\ Len(f.sent) = f.n_call_tool
                /\ tool # NoTool
                /\ tool.canonical_tool_name # f.arguments.tool_name.v
                /\ \A k \in 1..Len(f.sent) :
                     /\ f.sent[k].name = tool.canonical_tool_name
                     /\ f.sent[k].arguments = f.arguments.tool_arguments
                /\ f.tool_call_log_data.mcp_tool_name = f.arguments.tool_name.v

\* The call for S1__T2 with one argument was sent twice, the retry after a
\* stale-session error, both times as t2 with that argument, and the entry
\* names S1__T2.
C33_Witness ==
    \E p \in Procs :
        /\ Dispatch(p)
        /\ frame[p].arguments = Args(JStr("S1__T2"), JDict1, FALSE)
        /\ frame[p].first_attempt = SessionTerminated
        /\ frame[p].sent = << [name |-> "t2", arguments |-> JDict1],
                              [name |-> "t2", arguments |-> JDict1] >>
        /\ frame[p].tool_call_log_data.mcp_tool_name = "S1__T2"

\* C34: every dispatch, its transport operations each returning or failing,
\* comes to the return of handle_execute_tool, and has by then and at any
\* time made at most one initialize and at most two call_tool, whatever the
\* target service answers, a stale-session error to the retry included.
C34_DispatchTerminates ==
    /\ [](\A p \in Procs : frame[p].n_initialize <= 1 /\ frame[p].n_call_tool <= 2)
    /\ \A p \in Procs :
         (Dispatch(p) /\ frame[p].pc = "validate")
            ~> (Dispatch(p) /\ frame[p].pc = "log" /\ frame[p].exit # "none")

\* A dispatch has returned after a stale-session error to its first
\* call_tool, one initialize, and a stale-session error to the retry.
C34_Witness ==
    \E p \in Procs :
        /\ Dispatch(p) /\ frame[p].pc = "log"
        /\ frame[p].n_initialize = 1
        /\ frame[p].n_call_tool = 2
        /\ frame[p].first_attempt = SessionTerminated
        /\ frame[p].last_attempt = SessionTerminated
        /\ frame[p].exit = "McpError"

\* A walk through the route is under way.
Paging == walk.pc = "paging"

\* The entries the responses of the walk returned, page after page.
RECURSIVE returned_so_far(_)
returned_so_far(responses) ==
    IF responses = << >> THEN << >>
    ELSE responses[1].data \o returned_so_far(Tail(responses))

\* The row belongs to the scope the walking caller is served from.
InWalkScope(r) ==
    IF walk.context.act_as.role = ADMIN
    THEN r.organization_id = walk.context.act_as.organization_id
    ELSE r.user_id = walk.context.user_id

\* The row lies in the window the k-th response of the walk was computed for.
InWindowOf(r, k) ==
    /\ walk.responses[k].start_time.some <= r.started_at
    /\ r.started_at <= walk.responses[k].end_time.some

\* C35: whatever entries are written between the page requests of a walk,
\* the (started_at, id) positions of the entries returned over the whole
\* walk are strictly decreasing, so no entry is on two pages.
C35_WalkNeverRepeatsUnderInserts ==
    Paging =>
        LET all == returned_so_far(walk.responses)
        IN  \A i \in 1..(Len(all) - 1) : desc_started_at_id(all[i], all[i + 1])

\* A second page was served after an entry of the scope was written that is
\* newer than the last entry of the first page, and holds an entry.
C35_Witness ==
    /\ Paging
    /\ Len(walk.responses) = 2
    /\ walk.responses[2].data # << >>
    /\ \E r \in tool_call_logs \ walk.existed :
         /\ InWalkScope(r)
         /\ InWindowOf(r, 2)
         /\ LET first == walk.responses[1].data
            IN  desc_started_at_id(r, first[Len(first)])

\* The walk has come to its last page.
WalkEnded == Paging /\ walk.responses[Len(walk.responses)].next_cursor = NoValue

\* The row is on a page of the walk.
ReturnedByWalk(r) ==
    \E i \in 1..Len(returned_so_far(walk.responses)) : returned_so_far(walk.responses)[i] = r

\* C36 as stated: every entry that existed and matched the scope and the
\* window of the first page request is on some page of the finished walk.
C36_Original ==
    WalkEnded =>
        \A r \in walk.existed :
            (InWalkScope(r) /\ InWindowOf(r, 1)) => ReturnedByWalk(r)

\* C36: every entry that existed and matched the scope and the window when
\* the first page was served, and that lies in the window recomputed for
\* each later page request of the walk, is on some page of the finished
\* walk, whatever entries were written in between.
C36_ExistingEntriesReturnedWhileInWindow ==
    WalkEnded =>
        \A r \in walk.existed :
            (InWalkScope(r) /\ \A k \in 1..Len(walk.responses) : InWindowOf(r, k))
                => ReturnedByWalk(r)

\* A walk of two pages has ended: time advanced by a day between the
\* requests, an entry was written in between, and an entry that was not on
\* the first page is on the second.
C36_Witness ==
    /\ WalkEnded
    /\ Len(walk.responses) = 2
    /\ walk.responses[1].end_time = Some(9)
    /\ walk.responses[2].end_time = Some(10)
    /\ tool_call_logs # walk.existed
    /\ \E r \in walk.existed :
         /\ InWalkScope(r) /\ InWindowOf(r, 1) /\ InWindowOf(r, 2)
         /\ \E i \in 1..Len(walk.responses[2].data) : walk.responses[2].data[i] = r

\* The dispatch of request p has recorded a new token and has not returned
\* its entry yet.
Recorded(p) == Dispatch(p) /\ frame[p].mcp_tool # NoTool /\ frame[p].recorded

SseServers == {"S2"}

\* The request p is a dispatch to the server s.
DispatchTo(p, s) ==
    Dispatch(p) /\ frame[p].mcp_tool # NoTool /\ mcp_server_of(frame[p]) = s

\* C38: a dispatch to a server with the SSE transport never changes the
\* session's token map, whatever its outcome: no SSE server ever holds a
\* token, no step of a dispatch to an SSE server changes the map, and every
\* change of the map is the recording step of a dispatch to a server that is
\* not reached over SSE, changing that server's token.
C38_SseNeverRecords ==
    /\ [](\A s \in SseServers : external_mcp_sessions[s] = "none")
    /\ [][\A p \in Procs : \A s \in SseServers :
            (DispatchTo(p, s) /\ frame'[p] # frame[p]) =>
                external_mcp_sessions' = external_mcp_sessions]_vars
    /\ [][external_mcp_sessions' # external_mcp_sessions =>
            \E p \in Procs : \E s \in Servers \ SseServers :
                /\ DispatchTo(p, s) /\ frame[p].pc = "record"
                /\ external_mcp_sessions'[s] # external_mcp_sessions[s]]_vars

\* A dispatch to the SSE server has succeeded after an initialize, an earlier
\* dispatch to that server has been made too, and the server holds no token.
C38_Witness ==
    \E p \in Procs :
        /\ AtReturn(p) /\ frame[p].pc = "log" /\ frame[p].exit = "Success"
        /\ DispatchTo(p, "S2") /\ transport_type("S2") = "SSE"
        /\ frame[p].prev.seen
        /\ frame[p].n_initialize = 1 /\ frame[p].n_call_tool = 1
        /\ ~frame[p].recorded
        /\ external_mcp_sessions["S2"] = "none"

\* The request p is a tools/call that is no EXECUTE_TOOL: it names
\* SEARCH_TOOLS or a tool the gateway does not offer.
NotExecuteTool(f) == f.params_name \in {"SEARCH_TOOLS", "OTHER"}

\* The request of f has used neither the transport nor the audit table nor the
\* token map.
Untouched(f) ==
    /\ ~f.opened /\ f.n_initialize = 0 /\ f.n_call_tool = 0 /\ f.sent = << >>
    /\ ~f.recorded
    /\ f.n_create = 0 /\ f.tool_call_log_data = EmptyLog

ToolFound(f) == f.mcp_tool # NoTool
ConfigurationFound(f) == f.mcp_server_configuration # NoConfiguration

\* The fields of the audit entry log that are set.
SetFields(log) ==
    { k \in {"mcp_tool_name", "mcp_server_name", "mcp_server_id", "mcp_tool_id",
             "mcp_server_configuration_name", "mcp_server_configuration_id"} :
        log[k] # "none" }

ToolFields == {"mcp_server_name", "mcp_server_id", "mcp_tool_id"}
ConfigurationFields == {"mcp_server_configuration_name", "mcp_server_configuration_id"}

====
